---- MODULE Spec2Model ----
(***************************************************************************)
(* Verification model of dedalus (Wikipedia dump -> graph CSV extractor).  *)
(*                                                                         *)
(* Specifications in this module:                                          *)
(*   Spec        the extraction pass (src/extract.rs run_extraction) run   *)
(*               by parallel workers, with the checkpoint manager          *)
(*               (src/checkpoint.rs), an operator interrupt and a resumed  *)
(*               second run (src/main.rs run_extract).                     *)
(***************************************************************************)
EXTENDS Integers, Sequences, FiniteSets, TLC

\* ---------------------------------------------------------------- bounds
NumPages == 2
NumWorkers == 2
MaxInterval == 2
MaxCsvShards == 1
MaxNoText == 1

\* ------------------------------------------------------ program constants
CHECKPOINT_VERSION == 3

Workers == 1..NumWorkers
PageIds == 1..NumPages
PageKinds == {"Article", "Redirect", "Special"}
\* Option<T>: None is the empty tuple, Some(x) the one-element tuple
None == <<>>
Some(x) == <<x>>

VARIABLES
    \* --- the input dump and the run parameters
    pages,              \* pages[i]: the i-th page record the reader emits
    interval,           \* CheckpointManager.interval
    csv_shards,         \* ExtractArgs.csv_shards
    \* --- run_extract / run_extraction
    phase,              \* "running" | "done" | "cleared" | "interrupted"
    runs,               \* number of runs started so far
    resuming,           \* resume_from.is_some()
    resume_after_id,    \* resume_from.last_processed_id or 0
    next_page,          \* position of the reader (par_bridge hands out pages in order)
    wpc,                \* wpc[w]: where worker w is in the for_each closure
    wpage,              \* wpage[w]: index of the page worker w holds (0 = none)
    whighest,           \* whighest[w]: value worker w read from max_completed_id
    stats_articles,     \* ExtractionStats.articles_processed
    max_completed_id,   \* AtomicU32 max_completed_id
    \* --- CheckpointManager
    pages_since_save,   \* AtomicU32
    save_lock,          \* Mutex<()>: owner worker or 0
    last_saved_id,      \* AtomicU32 (informational)
    \* --- the output directory
    ckfiles,            \* "checkpoint.bin" / "checkpoint.bin.tmp" -> content
    nodes_disk,         \* nodes_disk[s]: rows of nodes shard s that are on disk
    nodes_written,      \* nodes_written[s]: rows handed to the shard's buffered writer in this run
    blobs,              \* blobs[id]: "absent" | "partial" | "complete"
    \* --- WikiIndex and one call of resolve_id
    title_to_id,        \* HashMap<String, u32>: title -> Option<id>
    redirects,          \* HashMap<String, String>: title -> Option<title>
    rs_title,           \* Option<title>: the argument of the last resolve_id call
    rs_result,          \* Option<id>: what that call returned
    rs_depth,           \* value of `depth` when that call returned
    \* --- the side-entity dedup of run_extraction (one entity kind)
    dd_names,           \* dd_names[w]: names extracted from the text of worker w's page
    dd_pc,              \* dd_pc[w]: "contains" | "insert" | "write" | "done"
    dd_idx,             \* dd_idx[w]: position of the loop over dd_names[w]
    dd_new,             \* dd_new[w]: the local vector of newly-seen names
    dd_seen,            \* the DashSet of the entity kind
    dd_table,           \* dd_table[s]: names of the rows written to shard s of the node table
    \* --- edge classification of one article text
    text,               \* the wikitext, one entry per line
    sa_edges,           \* Option<rows>: the edge rows emitted for the article
    \* --- the index cache and the checkpoint as files validated on load
    st_kind,            \* "cache" | "checkpoint": the store the behaviour exercises
    st_input,           \* mtime and size of the live input file dump_a
    st_dir,             \* the name under which the output directory exists
    st_file,            \* content of index.cache / checkpoint.bin in that directory
    st_res,             \* Option: the last load (its arguments, what it returned, what run_extract made of it)
    st_built,           \* the index WikiIndex::build yields for dump_a
    \* --- the edge counters and the edges table (specification SpecEdges)
    eg_pages,           \* eg_pages[i]: the links of article i, in text order
    eg_phase,           \* "running" | "interrupted" | "done"
    eg_run,             \* 1: the first run, 2: the run started with --resume
    eg_after,           \* resume_after_id
    eg_next,            \* position of the reader
    eg_pc,              \* eg_pc[w]: where worker w is in the closure
    eg_page,            \* eg_page[w]: id of the page worker w holds (0 = none)
    eg_high,            \* eg_high[w]: what worker w read from max_completed_id
    eg_stats,           \* ExtractionStats: edges, see_also_edges, invalid
    eg_max,             \* AtomicU32 max_completed_id
    eg_ck,              \* Option: the checkpoint on disk
    eg_rows,            \* rows handed to the buffered edges writer in this run
    eg_disk,            \* rows of the edges table that are on disk
    \* --- the page limit (specification SpecLimit)
    lm_pages,           \* lm_pages[i]: the type of page i
    lm_limit,           \* Option<u64>: --limit
    lm_after,           \* resume_after_id
    lm_base,            \* stats.articles as restored when the run started
    lm_next,            \* position of the reader
    lm_pc,              \* lm_pc[w]: where worker w is in the closure
    lm_page,            \* lm_page[w]: id of the page worker w holds (0 = none)
    lm_counter,         \* AtomicU64 limit_counter
    lm_passed,          \* ids of the pages the closure took past the limit check
    lm_stats,           \* stats.articles
    lm_rows,            \* node rows written in this run
    \* --- the sharded CSV writers (specification SpecShards)
    sd_count,           \* ExtractArgs.csv_shards
    sd_writers,         \* sd_writers[t]: the Vec of writers of table t, as file names
    sd_files,           \* sd_files[name]: the rows written to the file of that name
    sd_todo,            \* ids of the pages not yet processed
    \* --- one checkpoint snapshot of the ten counters (specification SpecSnapshot)
    sn_stats,           \* ExtractionStats: the ten counters
    sn_page_id,         \* the page id handed to save
    sn_taken,           \* Option: the counters as they were when save took its snapshot
    sn_file,            \* content of checkpoint.bin
    sn_loaded,          \* Option: what load_if_valid returned, and the statistics restored from it
    \* --- one call of a function of its arguments alone
    call_arg,           \* the argument of the call
    call_ret,           \* Option: what the call returned
    \* --- one call of run_extraction with its flags and its write failures
    \* (specification SpecDryRun)
    dr_dry_run,         \* the dry_run argument
    dr_mgr,             \* whether a checkpoint manager was passed
    dr_resume,          \* Option: the resume_from checkpoint
    dr_phase,           \* "setup" | "pages" | "ok" | "err": where the call is
    dr_next,            \* id of the next page of the stream
    dr_stats,           \* ExtractionStats: articles, edges, blobs
    dr_files,           \* the files and directories under the output directory
    dr_before,          \* dr_files as it was when the call began
    dr_processed,       \* ids of the pages the closure ran on
    dr_failed,          \* ids of the pages for which a write failed
    \* --- a sequential series of maybe_save calls (specification SpecMaybeSave)
    ms_interval,        \* CheckpointManager.interval
    ms_count,           \* AtomicU32 pages_since_save
    ms_file,            \* Option: last_processed_id of the checkpoint on disk
    ms_log,             \* one entry per call made: its page id, what it returned, whether it saved
    \* --- one call of load_csv_files (specification SpecLoad)
    ld_files,           \* files.len()
    ld_max_parallel,    \* the max_parallel argument
    ld_pc,              \* "start" | "loop" | "returned"
    ld_iter,            \* how many files file_iter has handed out
    ld_task,            \* ld_task[f]: "none" | "running" | "ok" | "err": the task spawned for file f
    ld_in_flight,       \* the files whose task is in the FuturesUnordered
    ld_queries,         \* ld_queries[f]: how many LOAD CSV queries were issued for file f
    ld_completed,       \* completed
    ld_failed,          \* failed
    ld_result,          \* Option: "ok" | "err", what the call returned
    \* --- the shard files of one table over a series of runs (specification SpecSink)
    sk_files,           \* sk_files[f]: None when file f does not exist, else Some(its rows)
    sk_runs,            \* how many runs have opened the table
    sk_ckpt,            \* TRUE once a run has left a checkpoint to resume from
    sk_before,          \* sk_files as the last run found it
    rw_shards,          \* csv_shards of the run
    rw_edges,           \* rw_edges[p]: local_edges.len() of page p
    rw_next,            \* the next page the reader hands out
    rw_pc,              \* rw_pc[w]: "idle" | "lock" | "write" | "unlock"
    rw_page,            \* rw_page[w]: the page worker w holds (0 when idle)
    rw_i,               \* rw_i[w]: the position in local_edges of the row w writes next
    rw_lock,            \* rw_lock[s]: the worker holding the mutex of edges shard s (0 when free)
    rw_file,            \* rw_file[s]: the rows of edges shard s, each <<page id, position>>
    rw_acq,             \* rw_acq[p]: how often the shard mutex was taken for page p
    sk_last             \* Option: the dry_run, resuming and csv_shards of the run that has just ended

paramVars == <<pages, interval, csv_shards>>
runVars == <<phase, runs, resuming, resume_after_id, next_page>>
workerVars == <<wpc, wpage, whighest>>
ckptVars == <<pages_since_save, save_lock, last_saved_id, ckfiles>>
outVars == <<nodes_disk, nodes_written, blobs>>
extractVars == <<paramVars, runVars, workerVars, stats_articles, max_completed_id, ckptVars, outVars>>
indexVars == <<title_to_id, redirects, rs_title, rs_result, rs_depth>>
dedupVars == <<dd_names, dd_pc, dd_idx, dd_new, dd_seen, dd_table>>
seeAlsoVars == <<text, sa_edges>>
storeVars == <<st_kind, st_input, st_dir, st_file, st_res, st_built>>
edgeVars == <<eg_pages, eg_phase, eg_run, eg_after, eg_next, eg_pc, eg_page, eg_high,
              eg_stats, eg_max, eg_ck, eg_rows, eg_disk>>
limitVars == <<lm_pages, lm_limit, lm_after, lm_base, lm_next, lm_pc, lm_page, lm_counter,
               lm_passed, lm_stats, lm_rows>>
shardVars == <<sd_count, sd_writers, sd_files, sd_todo>>
snapVars == <<sn_stats, sn_page_id, sn_taken, sn_file, sn_loaded>>
callVars == <<call_arg, call_ret>>
dryVars == <<dr_dry_run, dr_mgr, dr_resume, dr_phase, dr_next, dr_stats, dr_files, dr_before,
            dr_processed, dr_failed>>
seriesVars == <<ms_interval, ms_count, ms_file, ms_log>>
loadVars == <<ld_files, ld_max_parallel, ld_pc, ld_iter, ld_task, ld_in_flight, ld_queries,
             ld_completed, ld_failed, ld_result>>
sinkVars == <<sk_files, sk_runs, sk_ckpt, sk_before, sk_last>>
rowVars == <<rw_shards, rw_edges, rw_next, rw_pc, rw_page, rw_i, rw_lock, rw_file, rw_acq>>
lastVars == <<seriesVars, loadVars, sinkVars, rowVars>>
laterVars == <<snapVars, callVars, dryVars, lastVars>>
nonStoreAux == <<edgeVars, limitVars, shardVars, laterVars>>
auxVars == <<storeVars, nonStoreAux>>
vars == <<extractVars, indexVars, dedupVars, seeAlsoVars, auxVars>>

\* ------------------------------------------------------------- helpers
Max(a, b) == IF a >= b THEN a ELSE b

Shards == 0..(csv_shards - 1)

\* src/parser.rs: the title of page i (distinct per page in a dump)
TitleOf(i) == "Title" \o ToString(i)

\* ShardedCsvWriter::shard_for
shard_for(page_id) == page_id % csv_shards

\* the header tuple of the nodes table and a node row
NodesHeader == <<"id:ID", "title", ":LABEL">>
\* id_str = page.id.to_string()
NodeRow(p) == <<ToString(p.id), p.title, "Page">>

\* `if let PageType::Article = page.page_type`
IsArticleOrRedirect(p) == p.kind # "Special"
IsArticle(p) == p.kind = "Article"

\* reader.filter(|page| page.id > resume_after_id)
PassesResumeFilter(p) == p.id > resume_after_id

\* checkpoint_path(output_dir) and checkpoint_path.with_extension("bin.tmp")
CheckpointPath == "checkpoint.bin"
TmpPathInPlace(path) == path
TmpPath(path) == "checkpoint.bin.tmp"

CkNames == {"checkpoint.bin", "checkpoint.bin.tmp"}
Absent == [state |-> "absent"]
Partial == [state |-> "partial"]
Complete(cp) == [state |-> "complete", cp |-> cp]

\* a file that holds bytes that are no encoding of a record
Garbage == [state |-> "garbage"]

\* Result<T>: Ok(v) and Err
Ok(v) == [ok |-> TRUE, value |-> v]
Err == [ok |-> FALSE, value |-> None]

\* the arguments of a run that the checkpoint code sees (ExtractArgs)
Args(input_path, output_dir, shard_count, csv_shard_count) ==
    [input_path |-> input_path, output_dir |-> output_dir,
     shard_count |-> shard_count, csv_shards |-> csv_shard_count]

\* the Checkpoint that CheckpointManager::save builds: the manager keeps
\* input_path, input_mtime, output_dir and shard_count from new(); the csv
\* shard count is not a field of the struct
CheckpointOf(version, args, input_mtime, page_id, articles) ==
    [version |-> version,
     input_path |-> args.input_path,
     input_mtime |-> input_mtime,
     output_dir |-> args.output_dir,
     shard_count |-> args.shard_count,
     last_processed_id |-> page_id,
     articles_processed |-> articles]

\* options.deserialize_from(reader): Ok for a complete record, Err for a
\* truncated file or bytes that are no encoding
deserialize_from(file) == IF file.state = "complete" THEN Some(file.cp) ELSE None

\* checkpoint::load_if_valid on the file found at checkpoint_path(output_dir),
\* with the arguments of the current run and the mtime of the live input
load_checkpoint_no_shard_check(file, args, current_mtime) ==
    IF file.state = "absent" THEN Ok(None)
    ELSE LET decoded == deserialize_from(file) IN
         IF decoded = None THEN Ok(None)
         ELSE LET checkpoint == decoded[1] IN
              IF checkpoint.version # CHECKPOINT_VERSION THEN Ok(None)
              ELSE IF checkpoint.input_path # args.input_path THEN Ok(None)
              ELSE IF checkpoint.input_mtime # current_mtime THEN Ok(None)
              ELSE IF checkpoint.output_dir # args.output_dir THEN Ok(None)
              ELSE Ok(Some(checkpoint))

load_checkpoint_decode_error(file, args, current_mtime) ==
    IF file.state = "absent" THEN Ok(None)
    ELSE LET decoded == deserialize_from(file) IN
         IF decoded = None THEN Err
         ELSE LET checkpoint == decoded[1] IN
              IF checkpoint.version # CHECKPOINT_VERSION THEN Ok(None)
              ELSE IF checkpoint.input_path # args.input_path THEN Ok(None)
              ELSE IF checkpoint.input_mtime # current_mtime THEN Ok(None)
              ELSE IF checkpoint.output_dir # args.output_dir THEN Ok(None)
              ELSE IF checkpoint.shard_count # args.shard_count THEN Ok(None)
              ELSE Ok(Some(checkpoint))

load_checkpoint(file, args, current_mtime) ==
    IF file.state = "absent" THEN Ok(None)
    ELSE LET decoded == deserialize_from(file) IN
         IF decoded = None THEN Ok(None)
         ELSE LET checkpoint == decoded[1] IN
              IF checkpoint.version # CHECKPOINT_VERSION THEN Ok(None)
              ELSE IF checkpoint.input_path # args.input_path THEN Ok(None)
              ELSE IF checkpoint.input_mtime # current_mtime THEN Ok(None)
              ELSE IF checkpoint.output_dir # args.output_dir THEN Ok(None)
              ELSE IF checkpoint.shard_count # args.shard_count THEN Ok(None)
              ELSE Ok(Some(checkpoint))

\* In the extraction runs of Spec the operator repeats the command line over
\* the unchanged input: the same arguments and the same input mtime each run.
RunArgs == Args("dump_a", "out_a", 1, csv_shards)
RunInput == [mtime |-> 1, size |-> 1]

\* checkpoint::load_if_valid as run_extract calls it
load_if_valid == load_checkpoint(ckfiles[CheckpointPath], RunArgs, RunInput.mtime).value

\* ---------------------------------------------------------------- Init
\* A dump: page ids ascend in file order; each page has its own title.
PageChoices == {[kind |-> "Article", has_text |-> TRUE],
                [kind |-> "Article", has_text |-> FALSE],
                [kind |-> "Redirect", has_text |-> FALSE],
                [kind |-> "Special", has_text |-> TRUE]}

NoText(k) == {i \in PageIds : k[i].kind = "Article" /\ ~k[i].has_text}

Dumps == { [i \in PageIds |-> [id |-> i, title |-> TitleOf(i),
                               kind |-> k[i].kind, has_text |-> k[i].has_text]] :
             k \in {c \in [PageIds -> PageChoices] : Cardinality(NoText(c)) <= MaxNoText} }

\* State after run_extract has built the manager and run_extraction has
\* opened the sinks of a fresh run (headers written, nothing processed).
InitExtract ==
    /\ pages \in Dumps
    /\ interval \in 1..MaxInterval
    /\ csv_shards \in 1..MaxCsvShards
    /\ phase = "running"
    /\ runs = 1
    /\ resuming = FALSE
    /\ resume_after_id = 0
    /\ next_page = 1
    /\ wpc = [w \in Workers |-> "idle"]
    /\ wpage = [w \in Workers |-> 0]
    /\ whighest = [w \in Workers |-> 0]
    /\ stats_articles = 0
    /\ max_completed_id = 0
    /\ pages_since_save = 0
    /\ save_lock = 0
    /\ last_saved_id = 0
    /\ ckfiles = [n \in CkNames |-> Absent]
    /\ nodes_disk = [s \in Shards |-> <<>>]
    /\ nodes_written = [s \in Shards |-> <<NodesHeader>>]
    /\ blobs = [i \in PageIds |-> "absent"]

\* The parts of the state a specification does not use stay at these values.
IndexOff ==
    /\ title_to_id = <<>> /\ redirects = <<>>
    /\ rs_title = None /\ rs_result = None /\ rs_depth = 0

DedupOff ==
    /\ dd_names = <<>> /\ dd_pc = <<>> /\ dd_idx = <<>>
    /\ dd_new = <<>> /\ dd_seen = {} /\ dd_table = <<>>

SeeAlsoOff == text = <<>> /\ sa_edges = None

StoreOff ==
    /\ st_kind = "off" /\ st_input = <<>> /\ st_dir = "" /\ st_file = <<>>
    /\ st_res = None /\ st_built = <<>>

EdgesOff ==
    /\ eg_pages = <<>> /\ eg_phase = "off" /\ eg_run = 0 /\ eg_after = 0 /\ eg_next = 0
    /\ eg_pc = <<>> /\ eg_page = <<>> /\ eg_high = <<>> /\ eg_stats = <<>> /\ eg_max = 0
    /\ eg_ck = <<>> /\ eg_rows = <<>> /\ eg_disk = <<>>

LimitOff ==
    /\ lm_pages = <<>> /\ lm_limit = <<>> /\ lm_after = 0 /\ lm_base = 0 /\ lm_next = 0
    /\ lm_pc = <<>> /\ lm_page = <<>> /\ lm_counter = 0 /\ lm_passed = {} /\ lm_stats = 0
    /\ lm_rows = <<>>

ShardsOff == sd_count = 0 /\ sd_writers = <<>> /\ sd_files = <<>> /\ sd_todo = {}

SnapOff ==
    /\ sn_stats = <<>> /\ sn_page_id = 0 /\ sn_taken = <<>> /\ sn_file = <<>> /\ sn_loaded = <<>>

CallOff == call_arg = <<>> /\ call_ret = <<>>

DryOff ==
    /\ dr_dry_run = FALSE /\ dr_mgr = FALSE /\ dr_resume = <<>> /\ dr_phase = "off"
    /\ dr_next = 0 /\ dr_stats = <<>> /\ dr_files = {} /\ dr_before = {}
    /\ dr_processed = {} /\ dr_failed = {}

SeriesOff == ms_interval = 0 /\ ms_count = 0 /\ ms_file = <<>> /\ ms_log = <<>>

LoadOff ==
    /\ ld_files = 0 /\ ld_max_parallel = 0 /\ ld_pc = "off" /\ ld_iter = 0 /\ ld_task = <<>>
    /\ ld_in_flight = {} /\ ld_queries = <<>> /\ ld_completed = 0 /\ ld_failed = 0
    /\ ld_result = <<>>

SinkOff ==
    sk_files = <<>> /\ sk_runs = 0 /\ sk_ckpt = FALSE /\ sk_before = <<>> /\ sk_last = <<>>

RowsOff ==
    /\ rw_shards = 0 /\ rw_edges = <<>> /\ rw_next = 0 /\ rw_pc = <<>> /\ rw_page = <<>>
    /\ rw_i = <<>> /\ rw_lock = <<>> /\ rw_file = <<>> /\ rw_acq = <<>>

LastOff == SeriesOff /\ LoadOff /\ SinkOff /\ RowsOff

LaterOff == SnapOff /\ CallOff /\ DryOff /\ LastOff

NonStoreAuxOff == EdgesOff /\ LimitOff /\ ShardsOff /\ LaterOff
AuxOff == StoreOff /\ NonStoreAuxOff

ExtractOff ==
    /\ pages = <<>> /\ interval = 1 /\ csv_shards = 1
    /\ phase = "off" /\ runs = 0 /\ resuming = FALSE /\ resume_after_id = 0 /\ next_page = 1
    /\ wpc = <<>> /\ wpage = <<>> /\ whighest = <<>>
    /\ stats_articles = 0 /\ max_completed_id = 0
    /\ pages_since_save = 0 /\ save_lock = 0 /\ last_saved_id = 0
    /\ ckfiles = <<>> /\ nodes_disk = <<>> /\ nodes_written = <<>> /\ blobs = <<>>

Init == InitExtract /\ IndexOff /\ DedupOff /\ SeeAlsoOff /\ AuxOff

\* ------------------------------------------------- run_extraction workers
Running == phase = "running"

\* par_bridge hands the next page of the filtered reader to an idle worker
\* (the workers are interchangeable: the idle worker of least index takes
\* it); the closure returns at once for anything but an Article.
Take(w) ==
    /\ Running
    /\ wpc[w] = "idle"
    /\ \A v \in Workers : v < w => wpc[v] # "idle"
    /\ next_page <= NumPages
    /\ next_page' = next_page + 1
    /\ LET p == pages[next_page] IN
       IF PassesResumeFilter(p) /\ IsArticle(p)
       THEN /\ wpc' = [wpc EXCEPT ![w] = "inc"]
            /\ wpage' = [wpage EXCEPT ![w] = next_page]
       ELSE UNCHANGED <<wpc, wpage>>
    /\ UNCHANGED <<auxVars, indexVars, dedupVars, seeAlsoVars, paramVars, phase, runs, resuming, resume_after_id, whighest,
                   stats_articles, max_completed_id, ckptVars, outVars>>

\* stats_clone.inc_articles()
IncArticles(w) ==
    /\ Running
    /\ wpc[w] = "inc"
    /\ stats_articles' = stats_articles + 1
    /\ wpc' = [wpc EXCEPT ![w] = "node"]
    /\ UNCHANGED <<auxVars, indexVars, dedupVars, seeAlsoVars, paramVars, runVars, wpage, whighest, max_completed_id, ckptVars, outVars>>

\* nodes_writer.shard_for(page.id).lock().write_record([id, title, "Page"])
WriteNode(w) ==
    /\ Running
    /\ wpc[w] = "node"
    /\ LET p == pages[wpage[w]]
           s == shard_for(p.id) IN
       /\ nodes_written' = [nodes_written EXCEPT ![s] = Append(@, NodeRow(p))]
       /\ wpc' = [wpc EXCEPT ![w] = IF p.has_text THEN "blob_create" ELSE "fetch_max"]
    /\ UNCHANGED <<auxVars, indexVars, dedupVars, seeAlsoVars, paramVars, runVars, wpage, whighest, stats_articles, max_completed_id,
                   ckptVars, nodes_disk, blobs>>

\* File::create(&blob_path): creates the blob file, or truncates the existing one
BlobCreate(w) ==
    /\ Running
    /\ wpc[w] = "blob_create"
    /\ blobs' = [blobs EXCEPT ![pages[wpage[w]].id] = "partial"]
    /\ wpc' = [wpc EXCEPT ![w] = "blob_write"]
    /\ UNCHANGED <<auxVars, indexVars, dedupVars, seeAlsoVars, paramVars, runVars, wpage, whighest, stats_articles, max_completed_id,
                   ckptVars, nodes_disk, nodes_written>>

\* serde_json::to_writer(&mut w, &blob), the BufWriter flushing when dropped
BlobWrite(w) ==
    /\ Running
    /\ wpc[w] = "blob_write"
    /\ blobs' = [blobs EXCEPT ![pages[wpage[w]].id] = "complete"]
    /\ wpc' = [wpc EXCEPT ![w] = "fetch_max"]
    /\ UNCHANGED <<auxVars, indexVars, dedupVars, seeAlsoVars, paramVars, runVars, wpage, whighest, stats_articles, max_completed_id,
                   ckptVars, nodes_disk, nodes_written>>

\* max_completed_id.fetch_max(page.id); let highest = max_completed_id.load()
\* (one step: fetch_max operations commute and nothing else writes the atomic)
FetchMax(w) ==
    /\ Running
    /\ wpc[w] = "fetch_max"
    /\ max_completed_id' = Max(max_completed_id, pages[wpage[w]].id)
    /\ whighest' = [whighest EXCEPT ![w] = Max(max_completed_id, pages[wpage[w]].id)]
    /\ wpc' = [wpc EXCEPT ![w] = "gate"]
    /\ UNCHANGED <<auxVars, indexVars, dedupVars, seeAlsoVars, paramVars, runVars, wpage, stats_articles, ckptVars, outVars>>

\* ---------------------------------------------- CheckpointManager::maybe_save
\* count = pages_since_save.fetch_add(1) + 1; if count >= interval go for the lock
Gate(w) ==
    /\ Running
    /\ wpc[w] = "gate"
    /\ pages_since_save' = pages_since_save + 1
    /\ IF pages_since_save + 1 >= interval
       THEN wpc' = [wpc EXCEPT ![w] = "lock"] /\ UNCHANGED <<wpage, whighest>>
       ELSE /\ wpc' = [wpc EXCEPT ![w] = "idle"]
            /\ wpage' = [wpage EXCEPT ![w] = 0]
            /\ whighest' = [whighest EXCEPT ![w] = 0]
    /\ UNCHANGED <<auxVars, indexVars, dedupVars, seeAlsoVars, paramVars, runVars, stats_articles, max_completed_id,
                   save_lock, last_saved_id, ckfiles, outVars>>

\* save_lock.lock(), then the re-check of pages_since_save under the lock
LockWithoutMutex(w) ==
    /\ Running
    /\ wpc[w] = "lock"
    /\ IF pages_since_save < interval
       THEN /\ wpc' = [wpc EXCEPT ![w] = "idle"]
            /\ wpage' = [wpage EXCEPT ![w] = 0]
            /\ whighest' = [whighest EXCEPT ![w] = 0]
            /\ UNCHANGED save_lock
       ELSE /\ wpc' = [wpc EXCEPT ![w] = "save_create"]
            /\ save_lock' = w
            /\ UNCHANGED <<wpage, whighest>>
    /\ UNCHANGED <<auxVars, indexVars, dedupVars, seeAlsoVars, paramVars, runVars, stats_articles, max_completed_id,
                   pages_since_save, last_saved_id, ckfiles, outVars>>

Lock(w) ==
    /\ Running
    /\ wpc[w] = "lock"
    /\ save_lock = 0
    /\ IF pages_since_save < interval
       THEN /\ wpc' = [wpc EXCEPT ![w] = "idle"]
            /\ wpage' = [wpage EXCEPT ![w] = 0]
            /\ whighest' = [whighest EXCEPT ![w] = 0]
            /\ UNCHANGED save_lock
       ELSE /\ wpc' = [wpc EXCEPT ![w] = "save_create"]
            /\ save_lock' = w
            /\ UNCHANGED <<wpage, whighest>>
    /\ UNCHANGED <<auxVars, indexVars, dedupVars, seeAlsoVars, paramVars, runVars, stats_articles, max_completed_id,
                   pages_since_save, last_saved_id, ckfiles, outVars>>

\* CheckpointManager::save, first part: File::create(&tmp_path)
SaveCreate(w) ==
    /\ Running
    /\ wpc[w] = "save_create"
    /\ ckfiles' = [ckfiles EXCEPT ![TmpPath(CheckpointPath)] = Partial]
    /\ wpc' = [wpc EXCEPT ![w] = "save_write"]
    /\ UNCHANGED <<auxVars, indexVars, dedupVars, seeAlsoVars, paramVars, runVars, wpage, whighest, stats_articles, max_completed_id,
                   pages_since_save, save_lock, last_saved_id, outVars>>

\* serialize_into(writer, &checkpoint): the record holds the page id passed in
\* and stats.to_checkpoint()
SaveWrite(w) ==
    /\ Running
    /\ wpc[w] = "save_write"
    /\ ckfiles' = [ckfiles EXCEPT ![TmpPath(CheckpointPath)] =
                      Complete(CheckpointOf(CHECKPOINT_VERSION, RunArgs, RunInput.mtime,
                                            whighest[w], stats_articles))]
    /\ wpc' = [wpc EXCEPT ![w] = "save_rename"]
    /\ UNCHANGED <<auxVars, indexVars, dedupVars, seeAlsoVars, paramVars, runVars, wpage, whighest, stats_articles, max_completed_id,
                   pages_since_save, save_lock, last_saved_id, outVars>>

\* fs::rename(&tmp_path, &self.checkpoint_path); last_saved_id.store(page_id)
rename(files, from, to) ==
    IF from = to THEN files
    ELSE [files EXCEPT ![to] = files[from], ![from] = Absent]

\* then, back in maybe_save: pages_since_save.store(0), and the guard is
\* dropped on return (one step: the rename does not touch the counter)
SaveRename(w) ==
    /\ Running
    /\ wpc[w] = "save_rename"
    /\ ckfiles' = rename(ckfiles, TmpPath(CheckpointPath), CheckpointPath)
    /\ last_saved_id' = whighest[w]
    /\ pages_since_save' = 0
    /\ save_lock' = 0
    /\ wpc' = [wpc EXCEPT ![w] = "idle"]
    /\ wpage' = [wpage EXCEPT ![w] = 0]
    /\ whighest' = [whighest EXCEPT ![w] = 0]
    /\ UNCHANGED <<auxVars, indexVars, dedupVars, seeAlsoVars, paramVars, runVars, stats_articles,
                   max_completed_id, outVars>>

\* ------------------------------------------------------------ run level
AllIdle == \A w \in Workers : wpc[w] = "idle"

\* End of stream: for_each returns, the sinks are dropped (which flushes
\* them) and run_extraction returns Ok(stats).
Finish ==
    /\ Running
    /\ next_page > NumPages
    /\ AllIdle
    /\ phase' = "done"
    /\ nodes_disk' = [s \in Shards |-> nodes_disk[s] \o nodes_written[s]]
    /\ nodes_written' = [s \in Shards |-> <<>>]
    /\ UNCHANGED <<auxVars, indexVars, dedupVars, seeAlsoVars, paramVars, runs, resuming, resume_after_id, next_page, workerVars,
                   stats_articles, max_completed_id, ckptVars, blobs>>

\* run_extract after a successful extraction: checkpoint_mgr.clear()
clear_noop(files) == files

clear(files) == [files EXCEPT ![CheckpointPath] = Absent]

ClearCheckpoint ==
    /\ phase = "done"
    /\ phase' = "cleared"
    /\ ckfiles' = clear(ckfiles)
    /\ UNCHANGED <<auxVars, indexVars, dedupVars, seeAlsoVars, paramVars, runs, resuming, resume_after_id, next_page, workerVars,
                   stats_articles, max_completed_id, pages_since_save, save_lock,
                   last_saved_id, outVars>>

\* The operator interrupts the first run (the second run, resumed from
\* what the first left on disk, is let run).  Memory is lost; of the rows handed
\* to each buffered CSV writer, the prefix the BufWriter had already flushed
\* stays in the file and the rest is lost with the buffer.
Interrupt ==
    /\ Running
    /\ runs = 1
    /\ phase' = "interrupted"
    /\ \E k \in [Shards -> 0..NumPages + 1] :
          /\ \A s \in Shards : k[s] <= Len(nodes_written[s])
          /\ nodes_disk' = [s \in Shards |-> nodes_disk[s] \o SubSeq(nodes_written[s], 1, k[s])]
    /\ nodes_written' = [s \in Shards |-> <<>>]
    /\ wpc' = [w \in Workers |-> "idle"]
    /\ wpage' = [w \in Workers |-> 0]
    /\ whighest' = [w \in Workers |-> 0]
    /\ stats_articles' = 0
    /\ max_completed_id' = 0
    /\ pages_since_save' = 0
    /\ save_lock' = 0
    /\ last_saved_id' = 0
    /\ UNCHANGED <<auxVars, indexVars, dedupVars, seeAlsoVars, paramVars, runs, resuming, resume_after_id, next_page, ckfiles, blobs>>

\* ExtractionStats::from_checkpoint(&cp.stats) / ExtractionStats::new()
from_checkpoint(cp) == IF cp = None THEN 0 ELSE cp[1].articles_processed

\* create_csv_writer for one shard file: a resumed run appends to the file
\* when it exists (every shard file exists once a run has opened the sinks);
\* a fresh run truncates it.
create_csv_writer(file, is_resuming) == IF is_resuming THEN file ELSE <<>>

\* The operator starts `extract --resume` over the unchanged input:
\* run_extract loads the checkpoint if it is valid and run_extraction sets
\* up the run from it (fresh when there is none).
Restart ==
    /\ phase = "interrupted"
    /\ LET cp == load_if_valid
           r == cp # None
           after == IF r THEN cp[1].last_processed_id ELSE 0 IN
       /\ resuming' = r
       /\ resume_after_id' = after
       /\ stats_articles' = from_checkpoint(cp)
       /\ max_completed_id' = after
       /\ last_saved_id' = after
       /\ nodes_disk' = [s \in Shards |-> create_csv_writer(nodes_disk[s], r)]
       /\ nodes_written' = [s \in Shards |-> IF r THEN <<>> ELSE <<NodesHeader>>]
    /\ phase' = "running"
    /\ runs' = runs + 1
    /\ next_page' = 1
    /\ UNCHANGED <<auxVars, indexVars, dedupVars, seeAlsoVars, paramVars, workerVars, pages_since_save, save_lock, ckfiles, blobs>>

WorkerStep(w) ==
    \/ Take(w)
    \/ IncArticles(w)
    \/ WriteNode(w)
    \/ BlobCreate(w)
    \/ BlobWrite(w)
    \/ FetchMax(w)
    \/ Gate(w)
    \/ Lock(w)
    \/ SaveCreate(w)
    \/ SaveWrite(w)
    \/ SaveRename(w)

Next ==
    \/ \E w \in Workers : WorkerStep(w)
    \/ Finish
    \/ ClearCheckpoint
    \/ Interrupt
    \/ Restart

Spec == Init /\ [][Next]_vars

\* =========================================================================
\* Claims about the extraction run (specification Spec)
\* =========================================================================
Articles == {i \in PageIds : pages[i].kind = "Article"}

\* number of rows equal to r in the nodes table (all shards)
CountIn(seq, r) == Cardinality({k \in 1..Len(seq) : seq[k] = r})

RECURSIVE SumOver(_, _, _)
SumOver(S, f, r) ==
    IF S = {} THEN 0
    ELSE LET s == CHOOSE x \in S : TRUE IN CountIn(f[s], r) + SumOver(S \ {s}, f, r)

NodeRowCount(i) == SumOver(Shards, nodes_disk, NodeRow(pages[i]))

RunEnded == phase \in {"done", "cleared"}
ResumedRunEnded == RunEnded /\ runs = 2 /\ resuming

\* C1: after an interrupted first run and a second run resumed from the
\* checkpoint left on disk, every article page of the input has at least one
\* node row in the nodes table.
C1_EveryArticleHasNodeRow ==
    ResumedRunEnded => \A i \in Articles : NodeRowCount(i) >= 1

\* C2: after an interrupted first run and a second run resumed from its
\* checkpoint, no article id has more than one node row in the nodes table.
C2_NoDuplicateNodeRow ==
    ResumedRunEnded => \A i \in Articles : NodeRowCount(i) <= 1

\* C3: a fresh run that reaches end of stream leaves, under every
\* interleaving of the workers, exactly one row (id, title, "Page") for each
\* Article page, in the shard of its id, after the header, and no row for a
\* Redirect or Special page.
C3_FreshRunNodesExact ==
    (RunEnded /\ ~resuming) =>
        /\ \A i \in PageIds :
              /\ NodeRowCount(i) = (IF i \in Articles THEN 1 ELSE 0)
              /\ \A s \in Shards : \A k \in 1..Len(nodes_disk[s]) :
                    nodes_disk[s][k][1] = ToString(i) => (i \in Articles /\ nodes_disk[s][k] = NodeRow(pages[i]))
        /\ \A s \in Shards :
              /\ Len(nodes_disk[s]) = 1 + Cardinality({i \in Articles : shard_for(i) = s})
              /\ nodes_disk[s][1] = NodesHeader

C3_Witness ==
    /\ phase = "done" /\ ~resuming /\ runs = 1
    /\ \E i, j \in PageIds :
          /\ pages[i].kind = "Article" /\ pages[j].kind \in {"Redirect", "Special"}
          /\ NodeRowCount(i) = 1

\* C9: at every moment, also right after an interrupt in the middle of a
\* save, checkpoint.bin is absent or holds a complete record; a partial
\* record exists only under checkpoint.bin.tmp.
C9_CheckpointAbsentOrComplete ==
    ckfiles["checkpoint.bin"].state \in {"absent", "complete"}

C9_Witness ==
    /\ phase = "interrupted"
    /\ ckfiles["checkpoint.bin"].state = "complete"
    /\ ckfiles["checkpoint.bin.tmp"].state = "partial"

\* C10: after an interruption at any point, every blob file present holds a
\* complete JSON document.
C10_BlobsCompleteAfterInterrupt ==
    phase = "interrupted" => \A i \in PageIds : blobs[i] \in {"absent", "complete"}

\* for_each has returned and the sinks are not yet dropped: every row of
\* this run is in nodes_written
EndOfStream == Running /\ next_page > NumPages /\ AllIdle
\* the article ids whose node row was handed to the nodes writer in this run
WrittenThisRun ==
    {i \in Articles : \E s \in Shards : CountIn(nodes_written[s], NodeRow(pages[i])) >= 1}

\* C16: at the end of every run, fresh or resumed, stats.articles equals the
\* number of distinct article ids for which a node row was written in this run.
C16_ArticlesCountsNodeRows ==
    EndOfStream => stats_articles = Cardinality(WrittenThisRun)

\* C20: when a run that reached end of stream clears the checkpoint, no
\* checkpoint.bin remains, however many checkpoints the workers saved; and
\* when none exists the clear changes nothing in the output directory.
C20_ClearedAfterSuccess ==
    [][(phase = "done" /\ phase' = "cleared") =>
          /\ ckfiles'[CheckpointPath] = Absent
          /\ ckfiles[CheckpointPath] = Absent => ckfiles' = ckfiles
          /\ nodes_disk' = nodes_disk /\ blobs' = blobs]_vars

\* a run whose workers saved a checkpoint has ended and cleared it
C20_Witness ==
    /\ phase = "cleared"
    /\ last_saved_id >= 1
    /\ ckfiles[CheckpointPath] = Absent

\* C28: over the successive checkpoints written during one run,
\* last_processed_id never decreases, whatever the interleaving of the
\* workers that read max_completed_id and then call maybe_save.
C28_LastProcessedIdMonotone ==
    [][(runs = 1 /\ Running /\ Running'
        /\ ckfiles[CheckpointPath].state = "complete"
        /\ ckfiles'[CheckpointPath].state = "complete") =>
          ckfiles'[CheckpointPath].cp.last_processed_id
             >= ckfiles[CheckpointPath].cp.last_processed_id]_vars

\* the workers that are inside CheckpointManager::save
InSave == {w \in Workers : wpc[w] \in {"save_create", "save_write", "save_rename"}}

\* C29: under every interleaving of workers calling maybe_save at most one
\* worker at a time is inside save, and it holds the mutex; a worker whose
\* count does not reach the interval returns without taking the mutex.
C29_OneWriterAtATime ==
    [][/\ Cardinality(InSave') <= 1
       /\ \A w \in InSave' : save_lock' = w
       /\ \A w \in Workers :
             (wpc[w] = "gate" /\ wpc'[w] # "gate" /\ pages_since_save + 1 < interval) =>
                (wpc'[w] = "idle" /\ save_lock' = save_lock)]_vars

\* one worker is writing checkpoint.bin.tmp while another waits for the mutex
C29_Witness ==
    \E w, v \in Workers :
        /\ wpc[w] = "save_write" /\ save_lock = w
        /\ wpc[v] = "lock"

\* C30: after a run interrupted at any point and a run resumed from its
\* checkpoint that reaches end of stream, the final stats.articles equals
\* the number of article pages of the input.
C30_ResumedArticlesCountExact ==
    (ResumedRunEnded) => stats_articles = Cardinality(Articles)

\* =========================================================================
\* WikiIndex::resolve_id (src/index.rs), specification SpecResolve
\* =========================================================================
NumTitles == 7
REDIRECT_MAX_DEPTH == 5

Titles == 0..(NumTitles - 1)

\* the id of the article page with title t (ids are unique in a dump)
IdOf(t) == 100 + t

\* Indexes tried: the titles 0..len form a redirect chain 0 -> 1 -> ... -> len
\* whose last title redirects nowhere (back = len + 1) or back to a title of
\* the chain (back <= len; a cycle, a self-redirect when back = len); any set
\* of titles is indexed as articles, titles of the chain included.
IndexShapes == {sh \in [len : Titles, back : 0..NumTitles, arts : SUBSET Titles] :
                  sh.back <= sh.len + 1}

ShapeRedirects(sh) ==
    [t \in Titles |-> IF t < sh.len THEN Some(t + 1)
                      ELSE IF t = sh.len /\ sh.back <= sh.len THEN Some(sh.back)
                      ELSE None]

ShapeArticles(sh) == [t \in Titles |-> IF t \in sh.arts THEN Some(IdOf(t)) ELSE None]

\* the while loop of resolve_id, from the state (current, depth)
RECURSIVE resolve_loop(_, _)
resolve_loop(current, depth) ==
    IF depth < REDIRECT_MAX_DEPTH
    THEN IF title_to_id[current] # None
         THEN [id |-> title_to_id[current], depth |-> depth]
         ELSE IF redirects[current] # None
              THEN resolve_loop(redirects[current][1], depth + 1)
              ELSE [id |-> None, depth |-> depth]
    ELSE [id |-> None, depth |-> depth]

\* variant: the redirect table is consulted before title_to_id
RECURSIVE resolve_loop_redirect_first(_, _)
resolve_loop_redirect_first(current, depth) ==
    IF depth < REDIRECT_MAX_DEPTH
    THEN IF redirects[current] # None
         THEN resolve_loop_redirect_first(redirects[current][1], depth + 1)
         ELSE [id |-> title_to_id[current], depth |-> depth]
    ELSE [id |-> None, depth |-> depth]

resolve_id_redirect_first(title) == resolve_loop_redirect_first(title, 0)

\* variant: a chain that is too deep yields the id of the title it stopped at
\* when that title is indexed, and a default id otherwise
RECURSIVE resolve_loop_default(_, _)
resolve_loop_default(current, depth) ==
    IF depth < REDIRECT_MAX_DEPTH
    THEN IF title_to_id[current] # None
         THEN [id |-> title_to_id[current], depth |-> depth]
         ELSE IF redirects[current] # None
              THEN resolve_loop_default(redirects[current][1], depth + 1)
              ELSE [id |-> None, depth |-> depth]
    ELSE [id |-> Some(0), depth |-> depth]

resolve_id_default(title) == resolve_loop_default(title, 0)

resolve_id(title) == resolve_loop(title, 0)

InitResolve ==
    /\ \E sh \in IndexShapes :
          /\ title_to_id = ShapeArticles(sh)
          /\ redirects = ShapeRedirects(sh)
    /\ rs_title = None /\ rs_result = None /\ rs_depth = 0
    /\ ExtractOff /\ DedupOff /\ SeeAlsoOff /\ AuxOff

\* one call index.resolve_id(t)
Resolve(t) ==
    /\ rs_title = None
    /\ rs_title' = Some(t)
    /\ rs_result' = resolve_id(t).id
    /\ rs_depth' = resolve_id(t).depth
    /\ UNCHANGED <<auxVars, extractVars, dedupVars, seeAlsoVars, title_to_id, redirects>>

\* the caller drops the result
ResolveReturn ==
    /\ rs_title # None
    /\ rs_title' = None /\ rs_result' = None /\ rs_depth' = 0
    /\ UNCHANGED <<auxVars, extractVars, dedupVars, seeAlsoVars, title_to_id, redirects>>

NextResolve ==
    \/ \E t \in Titles : Resolve(t)
    \/ ResolveReturn

SpecResolve == InitResolve /\ [][NextResolve]_vars

\* --- reference notions the claims are stated with
\* Hop(t, k): the title reached from t by k redirect hops (None when the
\* chain ends before)
RECURSIVE Hop(_, _)
Hop(t, k) ==
    IF k = 0 THEN Some(t)
    ELSE LET prev == Hop(t, k - 1) IN
         IF prev = None THEN None ELSE redirects[prev[1]]

Indexed(ot) == ot # None /\ title_to_id[ot[1]] # None

\* the id found at exactly k hops from t: the title at k hops is the first
\* indexed title of the chain
FoundAt(t, k) ==
    /\ Indexed(Hop(t, k))
    /\ \A j \in 0..(k - 1) : ~Indexed(Hop(t, j))

\* t lies on a redirect cycle of length n
OnCycle(t, n) == Hop(t, n) = Some(t) /\ \A j \in 1..(n - 1) : Hop(t, j) # Some(t)

\* C5: resolve_id terminates (the loop runs at most REDIRECT_MAX_DEPTH
\* times) and returns none or the id title_to_id holds for the first indexed
\* title met within at most REDIRECT_MAX_DEPTH redirect hops of the title.
C5_ResolveReachable ==
    rs_title # None =>
        /\ rs_depth <= REDIRECT_MAX_DEPTH
        /\ \/ rs_result = None
           \/ \E k \in 0..REDIRECT_MAX_DEPTH :
                 /\ FoundAt(rs_title[1], k)
                 /\ rs_result = title_to_id[Hop(rs_title[1], k)[1]]

\* a title that is both indexed and a redirect source whose target is
\* indexed too, or a cycle: the cases where a wrong walk would show
C5_Witness ==
    /\ rs_title # None /\ rs_result # None
    /\ redirects[rs_title[1]] # None
    /\ Indexed(redirects[rs_title[1]])
    /\ rs_result = title_to_id[rs_title[1]]

\* C6: on the first title of a chain of exactly REDIRECT_MAX_DEPTH hops
\* ending at an indexed article resolve returns that article's id; on a
\* chain of REDIRECT_MAX_DEPTH + 1 hops it returns none.
C6_ChainAtMaxDepthResolves ==
    rs_title # None =>
        /\ FoundAt(rs_title[1], REDIRECT_MAX_DEPTH) =>
              rs_result = title_to_id[Hop(rs_title[1], REDIRECT_MAX_DEPTH)[1]]
        /\ FoundAt(rs_title[1], REDIRECT_MAX_DEPTH + 1) => rs_result = None

\* C7: resolve returns none for every title on a redirect cycle (of any
\* length, a self-redirect included) none of whose titles is indexed; the
\* walk stops only because depth reached REDIRECT_MAX_DEPTH.
C7_CycleResolvesToNone ==
    \A n \in 1..NumTitles :
        (rs_title # None /\ OnCycle(rs_title[1], n)
           /\ \A j \in 0..(n - 1) : ~Indexed(Hop(rs_title[1], j)))
        => (rs_result = None /\ rs_depth = REDIRECT_MAX_DEPTH)

C7_Witness ==
    /\ rs_title # None
    /\ OnCycle(rs_title[1], 3)
    /\ \A j \in 0..2 : ~Indexed(Hop(rs_title[1], j))
    /\ \E t \in Titles : title_to_id[t] # None
    /\ rs_result = None

\* =========================================================================
\* Side-entity dedup of run_extraction (src/extract.rs), specification
\* SpecDedup.  The three dedup blocks (categories, images, external links)
\* are the same code over disjoint state (its own DashSet, its own sharded
\* writer) and differ in the :LABEL they write; the workers run one block,
\* each on its own page, and dd_table keeps the name of every row written,
\* from which EntityTable(kind) gives the rows of the table of a kind.  The
\* csv shard count is 1 (all pages share a writer) or the number of workers
\* (each page has its own).
\* =========================================================================
NumDedupWorkers == 2
MaxNames == 2

DedupWorkers == 1..NumDedupWorkers
Names == {"a", "b"}
EntityKinds == {"categories", "image_nodes", "external_link_nodes"}

\* the :LABEL column of the node table of an entity kind
LabelOf(kind) == IF kind = "categories" THEN "Category"
                 ELSE IF kind = "image_nodes" THEN "Image"
                 ELSE "ExternalLink"

EntityRow(kind, name) == <<name, name, LabelOf(kind)>>

NameLists == UNION {[1..n -> Names] : n \in 0..MaxNames}

\* DashSet::contains and the return value of DashSet::insert (true when the
\* value was not present)
insert_always_new(set, x) == TRUE
insert_is_new(set, x) == x \notin set

\* The workers are interchangeable, so the pages are handed out in one order
\* of their name lists: ListRank is an injective rank of a list.
NameCode(name) == IF name = "a" THEN 1 ELSE 2

RECURSIVE ListRank(_)
ListRank(names) ==
    IF names = <<>> THEN 0 ELSE NameCode(Head(names)) + 3 * ListRank(Tail(names))

\* the page of worker w has id w
DedupPageId(w) == w

InitDedup ==
    /\ dd_names \in [DedupWorkers -> NameLists]
    /\ \A w \in DedupWorkers :
          w + 1 \in DedupWorkers => ListRank(dd_names[w]) <= ListRank(dd_names[w + 1])
    /\ dd_pc = [w \in DedupWorkers |-> "contains"]
    /\ dd_idx = [w \in DedupWorkers |-> 1]
    /\ dd_new = [w \in DedupWorkers |-> <<>>]
    /\ dd_seen = {}
    /\ \E n \in {1, NumDedupWorkers} :
          /\ csv_shards = n
          /\ dd_table = [s \in 0..(n - 1) |-> <<>>]
    /\ pages = <<>> /\ interval = 1
    /\ phase = "off" /\ runs = 0 /\ resuming = FALSE /\ resume_after_id = 0 /\ next_page = 1
    /\ wpc = <<>> /\ wpage = <<>> /\ whighest = <<>>
    /\ stats_articles = 0 /\ max_completed_id = 0
    /\ pages_since_save = 0 /\ save_lock = 0 /\ last_saved_id = 0
    /\ ckfiles = <<>> /\ nodes_disk = <<>> /\ nodes_written = <<>> /\ blobs = <<>>
    /\ IndexOff /\ SeeAlsoOff /\ AuxOff

\* after the loop over the names: write the new rows, or nothing to write
AfterLoop(w, new) == IF new = <<>> THEN "done" ELSE "write"

\* `!seen.contains(name)`: the first half of the condition, for the name at
\* dd_idx[w]; an empty list skips the whole block
DedupContains(w) ==
    /\ dd_pc[w] = "contains"
    /\ IF dd_idx[w] > Len(dd_names[w])
       THEN /\ dd_pc' = [dd_pc EXCEPT ![w] = AfterLoop(w, dd_new[w])]
            /\ UNCHANGED dd_idx
       ELSE IF dd_names[w][dd_idx[w]] \in dd_seen
            THEN /\ dd_idx' = [dd_idx EXCEPT ![w] = @ + 1]
                 /\ UNCHANGED dd_pc
            ELSE /\ dd_pc' = [dd_pc EXCEPT ![w] = "insert"]
                 /\ UNCHANGED dd_idx
    /\ UNCHANGED <<auxVars, extractVars, indexVars, seeAlsoVars, dd_names, dd_new, dd_seen, dd_table>>

\* `&& seen.insert(name.clone())`: push the name when insert says it is new
DedupInsert(w) ==
    /\ dd_pc[w] = "insert"
    /\ LET name == dd_names[w][dd_idx[w]] IN
       /\ dd_seen' = dd_seen \cup {name}
       /\ dd_new' = [dd_new EXCEPT ![w] = IF insert_is_new(dd_seen, name)
                                          THEN Append(@, name) ELSE @]
    /\ dd_idx' = [dd_idx EXCEPT ![w] = @ + 1]
    /\ dd_pc' = [dd_pc EXCEPT ![w] = "contains"]
    /\ UNCHANGED <<auxVars, extractVars, indexVars, seeAlsoVars, dd_names, dd_table>>

RowsOf(kind, names) == [k \in 1..Len(names) |-> EntityRow(kind, names[k])]

\* one acquisition of the shard lock of the page: a row per new name
DedupWrite(w) ==
    /\ dd_pc[w] = "write"
    /\ dd_table' = [dd_table EXCEPT ![shard_for(DedupPageId(w))] = @ \o dd_new[w]]
    /\ dd_pc' = [dd_pc EXCEPT ![w] = "done"]
    /\ UNCHANGED <<auxVars, extractVars, indexVars, seeAlsoVars, dd_names, dd_idx, dd_new, dd_seen>>

NextDedup ==
    \E w \in DedupWorkers :
        \/ DedupContains(w)
        \/ DedupInsert(w)
        \/ DedupWrite(w)

SpecDedup == InitDedup /\ [][NextDedup]_vars

\* the node table of an entity kind: a row per name written, shard by shard
EntityTable(kind) == [s \in DOMAIN dd_table |-> RowsOf(kind, dd_table[s])]

EntityRowCount(kind, name) ==
    LET table == EntityTable(kind) IN
    SumOver(DOMAIN table, table, EntityRow(kind, name))

\* C4: under every interleaving of the workers, each distinct name gets at
\* most one node row in the node table of its kind (all shards together).
C4_AtMostOneEntityRow ==
    \A kind \in EntityKinds, name \in Names : EntityRowCount(kind, name) <= 1

\* two workers whose pages name the same entity, one of them twice, both
\* finished, and the row is there once
C4_Witness ==
    /\ \A w \in DedupWorkers : dd_pc[w] = "done"
    /\ dd_names[1] = <<"a", "a">>
    /\ \E i \in 1..Len(dd_names[2]) : dd_names[2][i] = "a"
    /\ \A kind \in EntityKinds : EntityRowCount(kind, "a") = 1

\* =========================================================================
\* Edge classification of run_extraction (src/extract.rs) with
\* content::see_also_section_start (src/content.rs), specification
\* SpecSeeAlso.  A text is a sequence of lines; SEE_ALSO_HEADER and
\* NEXT_SECTION_REGEX match whole lines, so the byte offset of a match is
\* ordered as the index of its line.
\* =========================================================================
MaxLines == 4

\* "see_also": a line == See also ==;  "heading": any other == heading ==;
\* "link": a line holding a wikilink whose target resolves;  "deadlink": a
\* line holding a wikilink whose target does not resolve;  "plain": no link
LineKinds == {"see_also", "heading", "link", "deadlink", "plain"}

Texts == UNION {[1..n -> LineKinds] : n \in 0..MaxLines}

\* the page whose text is classified
SeeAlsoPage == [id |-> 1, title |-> TitleOf(1), kind |-> "Article", has_text |-> TRUE]

\* index.resolve_id(target) of the link on line i
LinkTarget(txt, i) == IF txt[i] = "link" THEN Some(IdOf(i)) ELSE None

\* SEE_ALSO_HEADER.find(text).map(|m| m.start())
see_also_section_start(txt) ==
    IF \E i \in 1..Len(txt) : txt[i] = "see_also"
    THEN Some(CHOOSE i \in 1..Len(txt) :
                 txt[i] = "see_also" /\ \A j \in 1..(i - 1) : txt[j] # "see_also")
    ELSE None

\* match see_also_start { Some(sa_start) if offset >= sa_start => "SEE_ALSO", _ => "LINKS_TO" }
edge_type(sa_start, offset) ==
    IF sa_start # None /\ offset >= sa_start[1] THEN "SEE_ALSO" ELSE "LINKS_TO"

\* the loop over LINK_REGEX.captures_iter(text), from line i on
RECURSIVE local_edges(_, _, _)
local_edges(txt, sa_start, i) ==
    IF i > Len(txt) THEN <<>>
    ELSE IF txt[i] \in {"link", "deadlink"} /\ LinkTarget(txt, i) # None
         THEN <<<<ToString(SeeAlsoPage.id), ToString(LinkTarget(txt, i)[1]), edge_type(sa_start, i)>>>>
              \o local_edges(txt, sa_start, i + 1)
         ELSE local_edges(txt, sa_start, i + 1)

InitSeeAlso ==
    /\ text \in Texts
    /\ sa_edges = None
    /\ ExtractOff /\ IndexOff /\ DedupOff /\ AuxOff

\* the worker classifies the links of the article and emits its edge rows
ExtractEdges ==
    /\ sa_edges = None
    /\ sa_edges' = Some(local_edges(text, see_also_section_start(text), 1))
    /\ UNCHANGED <<auxVars, extractVars, indexVars, dedupVars, text>>

\* the rows are handed to the shard writer
EdgesWritten ==
    /\ sa_edges # None
    /\ sa_edges' = None
    /\ UNCHANGED <<auxVars, extractVars, indexVars, dedupVars, text>>

NextSeeAlso == ExtractEdges \/ EdgesWritten

SpecSeeAlso == InitSeeAlso /\ [][NextSeeAlso]_vars

\* --- the See-also section as the claim defines it: from the first See-also
\* heading up to the next heading or the end of the text
IsHeading(l) == l \in {"see_also", "heading"}

InSeeAlsoSection(txt, i) ==
    /\ see_also_section_start(txt) # None
    /\ i >= see_also_section_start(txt)[1]
    /\ \A j \in (see_also_section_start(txt)[1] + 1)..i : ~IsHeading(txt[j])

\* the line of the link an edge row was emitted for
EdgeLine(txt, row) == CHOOSE i \in 1..Len(txt) : ToString(IdOf(i)) = row[2]

\* C8: every edge row emitted for an article is typed SEE_ALSO if and only if
\* its wikilink lies within the See-also section (first See-also heading up
\* to the next heading or end of text), and LINKS_TO otherwise.
C8_SeeAlsoIffInSection ==
    sa_edges # None =>
        \A k \in 1..Len(sa_edges[1]) :
            LET row == sa_edges[1][k] IN
            /\ row[3] \in {"SEE_ALSO", "LINKS_TO"}
            /\ row[3] = "SEE_ALSO" <=> InSeeAlsoSection(text, EdgeLine(text, row))

\* =========================================================================
\* The index cache (src/cache.rs) and the checkpoint (src/checkpoint.rs) as
\* files that a later run validates, specification SpecStore.  A behaviour
\* exercises one of the two stores (st_kind); runs save the file, the
\* operator rewrites the input, damages the file or renames the output
\* directory, and runs load the file again.
\* =========================================================================
MaxMtime == 2
MaxSize == 2
MaxCacheChain == 2

CACHE_VERSION == 2

InputPaths == {"dump_a", "dump_b"}
OutputDirs == {"out_a", "out_b"}
Fingerprints == [mtime : 1..MaxMtime, size : 1..MaxSize]
ShardCounts == {1, 2}
StoreArgs == {Args(i, o, n, c) : i \in InputPaths, o \in OutputDirs,
                                 n \in ShardCounts, c \in ShardCounts}

\* a complete file, with the arguments of the run that wrote it
Stored(rec, args) == [state |-> "complete", cp |-> rec, by |-> args]

\* ---- the index as the cache sees it
\* bincode of a map: its entries; reading them back rebuilds an owned map
Entries(map) == {<<t, map[t][1]>> : t \in {u \in Titles : map[u] # None}}
FromEntries(entries) ==
    [t \in Titles |-> IF \E e \in entries : e[1] = t
                      THEN Some((CHOOSE e \in entries : e[1] = t)[2])
                      ELSE None]

\* WikiIndex::maps and WikiIndex::from_maps
maps(index) == <<index.title_to_id, index.redirects>>
from_maps(articles, redirect_map) == [title_to_id |-> articles, redirects |-> redirect_map]

\* WikiIndex::stats
stats(index) == <<Cardinality(Entries(index.title_to_id)), Cardinality(Entries(index.redirects))>>

\* the IndexCacheSer that save_index serializes
IndexCacheOf(version, input_path, fingerprint, index) ==
    [version |-> version,
     input_path |-> input_path,
     input_mtime |-> fingerprint.mtime,
     input_size |-> fingerprint.size,
     article_count |-> stats(index)[1],
     redirect_count |-> stats(index)[2],
     articles |-> Entries(maps(index)[1]),
     redirects |-> Entries(maps(index)[2])]

\* cache::try_load_index(cache_path, input_path) on the file at cache_path
try_load_index_size_only(file, input_path, live) ==
    IF file.state = "absent" THEN Ok(None)
    ELSE LET decoded == deserialize_from(file) IN
         IF decoded = None THEN Ok(None)
         ELSE LET cache == decoded[1] IN
              IF cache.version # CACHE_VERSION THEN Ok(None)
              ELSE IF cache.input_path # input_path THEN Ok(None)
              ELSE IF cache.input_size # live.size THEN Ok(None)
              ELSE Ok(Some(from_maps(FromEntries(cache.articles), FromEntries(cache.redirects))))

try_load_index_articles_only(file, input_path, live) ==
    IF file.state = "absent" THEN Ok(None)
    ELSE LET decoded == deserialize_from(file) IN
         IF decoded = None THEN Ok(None)
         ELSE LET cache == decoded[1] IN
              IF cache.version # CACHE_VERSION THEN Ok(None)
              ELSE IF cache.input_path # input_path THEN Ok(None)
              ELSE IF cache.input_mtime # live.mtime \/ cache.input_size # live.size THEN Ok(None)
              ELSE Ok(Some(from_maps(FromEntries(cache.articles), FromEntries({}))))

try_load_index(file, input_path, live) ==
    IF file.state = "absent" THEN Ok(None)
    ELSE LET decoded == deserialize_from(file) IN
         IF decoded = None THEN Ok(None)
         ELSE LET cache == decoded[1] IN
              IF cache.version # CACHE_VERSION THEN Ok(None)
              ELSE IF cache.input_path # input_path THEN Ok(None)
              ELSE IF cache.input_mtime # live.mtime \/ cache.input_size # live.size THEN Ok(None)
              ELSE Ok(Some(from_maps(FromEntries(cache.articles), FromEntries(cache.redirects))))

\* ---- Init
\* the indexes tried for dump_a: chains of at most MaxCacheChain redirects,
\* any of their titles indexed as articles; dump_b is another dump, which
\* holds no page and is never rewritten
CacheShapes == {sh \in IndexShapes : sh.len <= MaxCacheChain
                                     /\ sh.arts \subseteq {0, sh.len}}
EmptyIndex == from_maps([t \in Titles |-> None], [t \in Titles |-> None])
ShapeIndex(sh) == from_maps(ShapeArticles(sh), ShapeRedirects(sh))

\* fs::metadata(input_path): mtime (whole seconds) and size
LiveInput(input_path) == IF input_path = "dump_a" THEN st_input ELSE [mtime |-> 1, size |-> 1]
\* WikiIndex::build(input_path)
BuiltIndex(input_path) == IF input_path = "dump_a" THEN st_built ELSE EmptyIndex
\* the file a run finds at <output_dir>/index.cache or <output_dir>/checkpoint.bin
FileAt(output_dir) == IF output_dir = st_dir THEN st_file ELSE Absent

InitStore ==
    /\ st_kind \in {"cache", "checkpoint"}
    /\ st_input = [mtime |-> 1, size |-> 1]
    /\ st_dir = "out_a"
    /\ st_file = Absent
    /\ st_res = None
    /\ \E sh \in CacheShapes :
          st_built = IF st_kind = "cache" THEN ShapeIndex(sh) ELSE EmptyIndex
    /\ title_to_id = EmptyIndex.title_to_id
    /\ redirects = EmptyIndex.redirects
    /\ rs_title = None /\ rs_result = None /\ rs_depth = 0
    /\ ExtractOff /\ DedupOff /\ SeeAlsoOff /\ NonStoreAuxOff

\* the process of the last run has exited: its result and its index are gone
ProcessGone ==
    /\ st_res' = None
    /\ title_to_id' = EmptyIndex.title_to_id
    /\ redirects' = EmptyIndex.redirects
    /\ UNCHANGED <<rs_title, rs_result, rs_depth>>

\* ---- the operator and the file system
\* dump_a is rewritten at a later time, or within the same second: its
\* mtime and size become those of fp.  Either its pages are all removed
\* (emptied), or its bytes are written again as they were, which keeps the
\* size and takes a later mtime.
ModifyInput(fp, emptied) ==
    /\ fp # st_input
    /\ fp.mtime >= st_input.mtime
    /\ IF emptied THEN st_built # EmptyIndex ELSE fp.size = st_input.size
    /\ st_input' = fp
    /\ st_built' = IF emptied THEN EmptyIndex ELSE st_built
    /\ ProcessGone
    /\ UNCHANGED <<nonStoreAux, extractVars, dedupVars, seeAlsoVars, st_kind, st_dir, st_file>>

\* the store file is cut short, or overwritten with other bytes
DamageFile(content) ==
    /\ st_file.state # "absent"
    /\ st_file # content
    /\ st_file' = content
    /\ ProcessGone
    /\ UNCHANGED <<nonStoreAux, extractVars, dedupVars, seeAlsoVars, st_kind, st_input, st_dir, st_built>>

\* the output directory is renamed
MoveOutput(e) ==
    /\ e # st_dir
    /\ st_file.state # "absent"
    /\ st_dir' = e
    /\ ProcessGone
    /\ UNCHANGED <<nonStoreAux, extractVars, dedupVars, seeAlsoVars, st_kind, st_input, st_file, st_built>>

\* ---- the checkpoint
\* A run over the output directory saves a checkpoint (CheckpointManager::new,
\* which reads the input mtime, then save) and is interrupted; `version` is
\* CHECKPOINT_VERSION, or the format version of the previous release when
\* that release ran.
StoreSaveCheckpoint(args, version) ==
    /\ st_kind = "checkpoint"
    /\ args.output_dir = st_dir
    /\ st_file' = Stored(CheckpointOf(version, args, LiveInput(args.input_path).mtime,
                                      NumPages, NumPages), args)
    /\ ProcessGone
    /\ UNCHANGED <<nonStoreAux, extractVars, dedupVars, seeAlsoVars, st_kind, st_input, st_dir, st_built>>

\* run_extract --resume: load_if_valid, then run_extraction takes
\* resume_after_id from what it returned
StoreResume(args) ==
    /\ st_kind = "checkpoint"
    /\ LET res == load_checkpoint(FileAt(args.output_dir), args, LiveInput(args.input_path).mtime) IN
       st_res' = Some([args |-> args,
                       file |-> FileAt(args.output_dir),
                       result |-> res,
                       index_built |-> FALSE,
                       resume_after_id |-> IF res.ok /\ res.value # None
                                           THEN res.value[1].last_processed_id ELSE 0])
    /\ UNCHANGED <<nonStoreAux, extractVars, indexVars, dedupVars, seeAlsoVars, st_kind, st_input, st_dir, st_file, st_built>>

\* ---- the index cache
\* cache::save_index(index, input_path, output_dir): the file it leaves;
\* `version` is CACHE_VERSION, or the format version of the previous release
save_index(version, index, input_path, live) ==
    Stored(IndexCacheOf(version, input_path, live, index), index)

\* The index phase of run_extract (not --no-cache, not --dry-run) over the
\* output directory: the cache is tried; on a miss the index is built from
\* the dump and saved.  An error of try_load_index ends the run.
StoreLoadIndex(args) ==
    /\ st_kind = "cache"
    /\ LET file == FileAt(args.output_dir)
           res == try_load_index(file, args.input_path, LiveInput(args.input_path))
           hit == res.ok /\ res.value # None
           index == IF hit THEN res.value[1] ELSE BuiltIndex(args.input_path) IN
       /\ st_res' = Some([args |-> args,
                          file |-> file,
                          result |-> res,
                          index_built |-> res.ok /\ ~hit,
                          resume_after_id |-> 0])
       /\ title_to_id' = IF res.ok THEN index.title_to_id ELSE EmptyIndex.title_to_id
       /\ redirects' = IF res.ok THEN index.redirects ELSE EmptyIndex.redirects
       /\ IF res.ok /\ ~hit
          THEN /\ st_file' = save_index(CACHE_VERSION, index, args.input_path, LiveInput(args.input_path))
               /\ st_dir' = args.output_dir
          ELSE UNCHANGED <<st_file, st_dir>>
    /\ UNCHANGED <<nonStoreAux, extractVars, dedupVars, seeAlsoVars, rs_title, rs_result, rs_depth,
                   st_kind, st_input, st_built>>

\* a run of the previous release left its index.cache in the output directory
StoreOlderCache(input_path) ==
    /\ st_kind = "cache"
    /\ st_file' = save_index(CACHE_VERSION - 1, BuiltIndex(input_path), input_path, LiveInput(input_path))
    /\ ProcessGone
    /\ UNCHANGED <<nonStoreAux, extractVars, dedupVars, seeAlsoVars, st_kind, st_input, st_dir, st_built>>

CacheArgs == {a \in StoreArgs : a.shard_count = 1 /\ a.csv_shards = 1}

NextStore ==
    \/ \E fp \in Fingerprints, emptied \in BOOLEAN : ModifyInput(fp, emptied)
    \/ \E c \in {Partial, Garbage} : DamageFile(c)
    \/ \E e \in OutputDirs : MoveOutput(e)
    \/ \E a \in StoreArgs, v \in {CHECKPOINT_VERSION - 1, CHECKPOINT_VERSION} :
          StoreSaveCheckpoint(a, v)
    \/ \E a \in StoreArgs : StoreResume(a)
    \/ \E a \in CacheArgs : StoreLoadIndex(a)
    \/ \E p \in InputPaths : StoreOlderCache(p)

SpecStore == InitStore /\ [][NextStore]_vars

\* ---- what the last run found and did
Loaded == st_res # None
LastRun == st_res[1]
ReturnedSome == LastRun.result.ok /\ LastRun.result.value # None
ReturnedNone == LastRun.result.ok /\ LastRun.result.value = None
\* the five values of the checkpoint on disk equal those of the resuming run
MatchesRun(cp, args) ==
    /\ cp.version = CHECKPOINT_VERSION
    /\ cp.input_path = args.input_path
    /\ cp.input_mtime = LiveInput(args.input_path).mtime
    /\ cp.output_dir = args.output_dir
    /\ cp.shard_count = args.shard_count

\* C11: load_if_valid returns the stored checkpoint only when its format
\* version, input path, input mtime, output directory and blob shard count
\* all equal those of the current run; any mismatch yields none, as a value
\* and not as an error, and so does a missing checkpoint file.
C11_LoadIfValidChecksFive ==
    (st_kind = "checkpoint" /\ Loaded) =>
        /\ LastRun.result.ok
        /\ LastRun.file.state = "absent" => ReturnedNone
        /\ LastRun.file.state = "complete" =>
              IF MatchesRun(LastRun.file.cp, LastRun.args)
              THEN LastRun.result.value = Some(LastRun.file.cp)
              ELSE ReturnedNone

\* a run with blob shard count 2 got back the checkpoint on disk
C11_Witness ==
    /\ st_kind = "checkpoint" /\ Loaded
    /\ LastRun.file.state = "complete"
    /\ ReturnedSome
    /\ LastRun.args.shard_count = 2

\* C12: a run resumes from a checkpoint only when its csv_shard_count equals
\* that of the run that saved the checkpoint.
C12_CsvShardCountChecked ==
    (st_kind = "checkpoint" /\ Loaded /\ LastRun.file.state = "complete" /\ ReturnedSome) =>
        LastRun.file.by.csv_shards = LastRun.args.csv_shards

\* the file the last run found exists but does not decode
FoundCorrupt == LastRun.file.state \in {Partial.state, Garbage.state}

\* C13: a cache file or checkpoint file that exists but is truncated or is
\* not a valid encoding makes try_load_index and load_if_valid return none,
\* not an error; the run goes on, building the index from the dump (and
\* holding exactly that index), or starting from page id 0.
C13_CorruptFileIsAMiss ==
    (Loaded /\ FoundCorrupt) =>
        /\ ReturnedNone
        /\ st_kind = "cache" =>
              /\ LastRun.index_built
              /\ title_to_id = BuiltIndex(LastRun.args.input_path).title_to_id
              /\ redirects = BuiltIndex(LastRun.args.input_path).redirects
        /\ st_kind = "checkpoint" => LastRun.resume_after_id = 0

\* a run found a truncated checkpoint and starts from id 0
C13_Witness ==
    /\ st_kind = "checkpoint" /\ Loaded
    /\ LastRun.file = Partial
    /\ LastRun.resume_after_id = 0

\* the cache on disk was written for this input path, by this release, when
\* the input had the mtime and the size it has now
FreshFor(cache, args) ==
    /\ cache.version = CACHE_VERSION
    /\ cache.input_path = args.input_path
    /\ cache.input_mtime = LiveInput(args.input_path).mtime
    /\ cache.input_size = LiveInput(args.input_path).size

\* C14: try_load_index returns the cached index only when the recorded
\* version, input path, input mtime and input size all equal those of the
\* live input, and none otherwise; whatever saves, rewrites of the input and
\* loads came before, the index a run works with is the index of the input
\* as it is now.
C14_StaleCacheNeverUsed ==
    (st_kind = "cache" /\ Loaded) =>
        /\ LastRun.result.ok
        /\ LastRun.file.state = "complete" =>
              (ReturnedSome <=> FreshFor(LastRun.file.cp, LastRun.args))
        /\ ReturnedSome => LastRun.file.state = "complete"
        /\ title_to_id = BuiltIndex(LastRun.args.input_path).title_to_id
        /\ redirects = BuiltIndex(LastRun.args.input_path).redirects

\* the input was emptied after its index was cached, and the run that
\* followed refused the cache, which holds an article
C14_Witness ==
    /\ st_kind = "cache" /\ Loaded
    /\ LastRun.file.state = "complete"
    /\ LastRun.file.cp.version = CACHE_VERSION
    /\ LastRun.file.cp.input_path = LastRun.args.input_path
    /\ LastRun.file.cp.articles # {}
    /\ ReturnedNone
    /\ st_built = EmptyIndex
    /\ LastRun.args.input_path = "dump_a"

\* the run of this state built its index from the dump and saved it to the cache
SavedByThisRun == st_kind = "cache" /\ Loaded /\ LastRun.index_built
\* the run of this state took its index from the cache
LoadedFromCache == st_kind = "cache" /\ Loaded /\ ReturnedSome

NumEdgePages == 2
MaxLinks == 2

EdgePageIds == 1..NumEdgePages
\* a link of the text that is neither empty nor a namespace link: what
\* index.resolve_id gave for its target, and whether it stands at or after
\* the start of the See also section
Links == {[target |-> Some(7), see_also |-> FALSE],
          [target |-> Some(7), see_also |-> TRUE],
          [target |-> None, see_also |-> FALSE]}
LinkLists == UNION {[1..n -> Links] : n \in 0..MaxLinks}

\* the loop over LINK_REGEX.captures_iter(text): local_edges of page id
page_edges(id, links) ==
    LET resolved == SelectSeq(links, LAMBDA l : l.target # None) IN
    [k \in 1..Len(resolved) |->
        <<ToString(id), ToString(resolved[k].target[1]),
          IF resolved[k].see_also THEN "SEE_ALSO" ELSE "LINKS_TO">>]
\* invalid_count of the page
invalid_count(links) == Len(SelectSeq(links, LAMBDA l : l.target = None))
\* local_edges.iter().filter(|(_, t)| *t == ty).count()
count_type(rows, ty) == Len(SelectSeq(rows, LAMBDA r : r[3] = ty))

\* ExtractionStats::new() and to_checkpoint / from_checkpoint
NewStats == [edges |-> 0, see_also_edges |-> 0, invalid |-> 0]

InitEdges ==
    /\ eg_pages \in [EdgePageIds -> LinkLists]
    /\ eg_phase = "running"
    /\ eg_run = 1
    /\ eg_after = 0
    /\ eg_next = 1
    /\ eg_pc = [w \in Workers |-> "idle"]
    /\ eg_page = [w \in Workers |-> 0]
    /\ eg_high = [w \in Workers |-> 0]
    /\ eg_stats = NewStats
    /\ eg_max = 0
    /\ eg_ck = None
    /\ eg_rows = <<>>
    /\ eg_disk = <<>>
    /\ ExtractOff /\ IndexOff /\ DedupOff /\ SeeAlsoOff /\ StoreOff /\ LimitOff /\ ShardsOff /\ LaterOff

EdgesRest == <<storeVars, limitVars, shardVars, laterVars, extractVars, indexVars, dedupVars, seeAlsoVars>>

\* the reader hands the next page to an idle worker; the resume filter
\* drops it when page.id <= resume_after_id
EgTake(w) ==
    /\ eg_phase = "running"
    /\ eg_pc[w] = "idle"
    /\ \A v \in Workers : v < w => eg_pc[v] # "idle"
    /\ eg_next <= NumEdgePages
    /\ eg_next' = eg_next + 1
    /\ IF eg_next > eg_after
       THEN /\ eg_pc' = [eg_pc EXCEPT ![w] = "add_edges"]
            /\ eg_page' = [eg_page EXCEPT ![w] = eg_next]
       ELSE UNCHANGED <<eg_pc, eg_page>>
    /\ UNCHANGED <<EdgesRest, eg_pages, eg_phase, eg_run, eg_after, eg_high, eg_stats, eg_max,
                   eg_ck, eg_rows, eg_disk>>

\* stats.add_edges(links_to_count)
EgAddEdges(w) ==
    /\ eg_phase = "running"
    /\ eg_pc[w] = "add_edges"
    /\ eg_stats' = [eg_stats EXCEPT !.edges =
          @ + count_type(page_edges(eg_page[w], eg_pages[eg_page[w]]), "LINKS_TO")]
    /\ eg_pc' = [eg_pc EXCEPT ![w] = "add_see_also"]
    /\ UNCHANGED <<EdgesRest, eg_pages, eg_phase, eg_run, eg_after, eg_next, eg_page, eg_high,
                   eg_max, eg_ck, eg_rows, eg_disk>>

\* stats.add_see_also_edges(see_also_count)
EgAddSeeAlso(w) ==
    /\ eg_phase = "running"
    /\ eg_pc[w] = "add_see_also"
    /\ eg_stats' = [eg_stats EXCEPT !.see_also_edges =
          @ + count_type(page_edges(eg_page[w], eg_pages[eg_page[w]]), "SEE_ALSO")]
    /\ eg_pc' = [eg_pc EXCEPT ![w] = "add_invalid"]
    /\ UNCHANGED <<EdgesRest, eg_pages, eg_phase, eg_run, eg_after, eg_next, eg_page, eg_high,
                   eg_max, eg_ck, eg_rows, eg_disk>>

\* stats.add_invalid_links(invalid_count)
EgAddInvalid(w) ==
    /\ eg_phase = "running"
    /\ eg_pc[w] = "add_invalid"
    /\ eg_stats' = [eg_stats EXCEPT !.invalid = @ + invalid_count(eg_pages[eg_page[w]])]
    /\ eg_pc' = [eg_pc EXCEPT ![w] = "write_edges"]
    /\ UNCHANGED <<EdgesRest, eg_pages, eg_phase, eg_run, eg_after, eg_next, eg_page, eg_high,
                   eg_max, eg_ck, eg_rows, eg_disk>>

\* the rows of local_edges are written under one lock of the edges shard
EgWriteEdges(w) ==
    /\ eg_phase = "running"
    /\ eg_pc[w] = "write_edges"
    /\ eg_rows' = eg_rows \o page_edges(eg_page[w], eg_pages[eg_page[w]])
    /\ eg_pc' = [eg_pc EXCEPT ![w] = "fetch_max"]
    /\ UNCHANGED <<EdgesRest, eg_pages, eg_phase, eg_run, eg_after, eg_next, eg_page, eg_high,
                   eg_stats, eg_max, eg_ck, eg_disk>>

\* max_completed_id.fetch_max(page.id).max(page.id)
EgFetchMax(w) ==
    /\ eg_phase = "running"
    /\ eg_pc[w] = "fetch_max"
    /\ eg_max' = IF eg_page[w] > eg_max THEN eg_page[w] ELSE eg_max
    /\ eg_high' = [eg_high EXCEPT ![w] = eg_max']
    /\ eg_pc' = [eg_pc EXCEPT ![w] = "maybe_save"]
    /\ UNCHANGED <<EdgesRest, eg_pages, eg_phase, eg_run, eg_after, eg_next, eg_page, eg_stats,
                   eg_ck, eg_rows, eg_disk>>

\* checkpoint_mgr.maybe_save(highest, &stats) with interval 1: the save,
\* under the save mutex, of the id the worker read and of the counters as
\* they are now
EgSave(w) ==
    /\ eg_phase = "running"
    /\ eg_pc[w] = "maybe_save"
    /\ eg_ck' = Some([last_processed_id |-> eg_high[w], stats |-> eg_stats])
    /\ eg_pc' = [eg_pc EXCEPT ![w] = "idle"]
    /\ eg_page' = [eg_page EXCEPT ![w] = 0]
    /\ eg_high' = [eg_high EXCEPT ![w] = 0]
    /\ UNCHANGED <<EdgesRest, eg_pages, eg_phase, eg_run, eg_after, eg_next, eg_stats, eg_max,
                   eg_rows, eg_disk>>

\* end of stream: the writers are dropped, which flushes them
EgFinish ==
    /\ eg_phase = "running"
    /\ eg_next > NumEdgePages
    /\ \A w \in Workers : eg_pc[w] = "idle"
    /\ eg_phase' = "done"
    /\ eg_disk' = eg_disk \o eg_rows
    /\ eg_rows' = <<>>
    /\ UNCHANGED <<EdgesRest, eg_pages, eg_run, eg_after, eg_next, eg_pc, eg_page, eg_high,
                   eg_stats, eg_max, eg_ck>>

\* the first run is interrupted: memory is lost, and of the rows handed to
\* the BufWriter the prefix it had flushed stays in the file
EgInterrupt ==
    /\ eg_phase = "running"
    /\ eg_run = 1
    /\ eg_phase' = "interrupted"
    /\ \E k \in 0..Len(eg_rows) : eg_disk' = eg_disk \o SubSeq(eg_rows, 1, k)
    /\ eg_rows' = <<>>
    /\ eg_pc' = [w \in Workers |-> "idle"]
    /\ eg_page' = [w \in Workers |-> 0]
    /\ eg_high' = [w \in Workers |-> 0]
    /\ eg_stats' = NewStats
    /\ eg_max' = 0
    /\ UNCHANGED <<EdgesRest, eg_pages, eg_run, eg_after, eg_next, eg_ck>>

\* `extract --resume` over the same input: the counters and resume_after_id
\* come from the checkpoint, the edges file is appended to; without a
\* checkpoint the run is fresh and truncates the file
EgRestart ==
    /\ eg_phase = "interrupted"
    /\ eg_phase' = "running"
    /\ eg_run' = 2
    /\ eg_next' = 1
    /\ eg_after' = IF eg_ck # None THEN eg_ck[1].last_processed_id ELSE 0
    /\ eg_max' = eg_after'
    /\ eg_stats' = IF eg_ck # None THEN eg_ck[1].stats ELSE NewStats
    /\ eg_disk' = IF eg_ck # None THEN eg_disk ELSE <<>>
    /\ UNCHANGED <<EdgesRest, eg_pages, eg_pc, eg_page, eg_high, eg_ck, eg_rows>>

EgWorkerStep(w) ==
    \/ EgTake(w)
    \/ EgAddEdges(w)
    \/ EgAddSeeAlso(w)
    \/ EgAddInvalid(w)
    \/ EgWriteEdges(w)
    \/ EgFetchMax(w)
    \/ EgSave(w)

NextEdges ==
    \/ \E w \in Workers : EgWorkerStep(w)
    \/ EgFinish
    \/ EgInterrupt
    \/ EgRestart

SpecEdges == InitEdges /\ [][NextEdges]_vars

RECURSIVE InvalidTargets(_)
InvalidTargets(ids) ==
    IF ids = {} THEN 0
    ELSE LET i == CHOOSE x \in ids : TRUE IN
         invalid_count(eg_pages[i]) + InvalidTargets(ids \ {i})

\* C17: at the end of a run stats.edges is the number of LINKS_TO rows in
\* the edges table, stats.see_also_edges the number of SEE_ALSO rows, and
\* stats.invalid the number of link targets of the input that did not
\* resolve, whatever the interleaving of the workers.
C17_EdgeCountersMatchRows ==
    eg_phase = "done" =>
        /\ eg_stats.edges = count_type(eg_disk, "LINKS_TO")
        /\ eg_stats.see_also_edges = count_type(eg_disk, "SEE_ALSO")
        /\ eg_stats.invalid = InvalidTargets(EdgePageIds)

\* =========================================================================
\* The page limit (src/extract.rs 254-274), specification SpecLimit: one
\* run, fresh or resumed, with or without --limit.
\* =========================================================================
NumLimitPages == 3
MaxLimit == 2

LimitPageIds == 1..NumLimitPages
LimitKinds == {"Article", "Other"}

\* if current >= max { return; }
limit_reached_off_by_one(current, max) == current > max

limit_reached(current, max) == current >= max

\* the pages the resume filter lets through
PassFilter == {i \in LimitPageIds : i > lm_after}

InitLimit ==
    /\ lm_pages \in [LimitPageIds -> LimitKinds]
    /\ lm_limit \in {None} \cup {Some(n) : n \in 0..MaxLimit}
    /\ lm_after \in 0..NumLimitPages
    /\ lm_base = Cardinality({i \in LimitPageIds : i <= lm_after /\ lm_pages[i] = "Article"})
    /\ lm_next = 1
    /\ lm_pc = [w \in Workers |-> "idle"]
    /\ lm_page = [w \in Workers |-> 0]
    /\ lm_counter = 0
    /\ lm_passed = {}
    /\ lm_stats = lm_base
    /\ lm_rows = <<>>
    /\ ExtractOff /\ IndexOff /\ DedupOff /\ SeeAlsoOff /\ StoreOff /\ EdgesOff /\ ShardsOff /\ LaterOff

LimitRest == <<storeVars, edgeVars, shardVars, laterVars, extractVars, indexVars, dedupVars, seeAlsoVars,
               lm_pages, lm_limit, lm_after, lm_base>>

\* reader.filter(|page| page.id > resume_after_id).par_bridge(): the next
\* page goes to an idle worker, or is dropped by the filter
LmTake(w) ==
    /\ lm_pc[w] = "idle"
    /\ \A v \in Workers : v < w => lm_pc[v] # "idle"
    /\ lm_next <= NumLimitPages
    /\ lm_next' = lm_next + 1
    /\ IF lm_next > lm_after
       THEN /\ lm_pc' = [lm_pc EXCEPT ![w] = "limit"]
            /\ lm_page' = [lm_page EXCEPT ![w] = lm_next]
       ELSE UNCHANGED <<lm_pc, lm_page>>
    /\ UNCHANGED <<LimitRest, lm_counter, lm_passed, lm_stats, lm_rows>>

\* if let Some(max) = limit { let current = limit_counter.fetch_add(1); if
\* current >= max { return; } }, then the test of the page type
LmLimitCheck(w) ==
    /\ lm_pc[w] = "limit"
    /\ lm_counter' = IF lm_limit # None THEN lm_counter + 1 ELSE lm_counter
    /\ IF lm_limit # None /\ limit_reached(lm_counter, lm_limit[1])
       THEN /\ lm_pc' = [lm_pc EXCEPT ![w] = "idle"]
            /\ lm_page' = [lm_page EXCEPT ![w] = 0]
            /\ UNCHANGED lm_passed
       ELSE /\ lm_passed' = lm_passed \cup {lm_page[w]}
            /\ IF lm_pages[lm_page[w]] = "Article"
               THEN /\ lm_pc' = [lm_pc EXCEPT ![w] = "inc_articles"]
                    /\ UNCHANGED lm_page
               ELSE /\ lm_pc' = [lm_pc EXCEPT ![w] = "idle"]
                    /\ lm_page' = [lm_page EXCEPT ![w] = 0]
    /\ UNCHANGED <<LimitRest, lm_next, lm_stats, lm_rows>>

\* stats.inc_articles()
LmIncArticles(w) ==
    /\ lm_pc[w] = "inc_articles"
    /\ lm_stats' = lm_stats + 1
    /\ lm_pc' = [lm_pc EXCEPT ![w] = "write_node"]
    /\ UNCHANGED <<LimitRest, lm_next, lm_page, lm_counter, lm_passed, lm_rows>>

\* the node row of the page is written
LmWriteNode(w) ==
    /\ lm_pc[w] = "write_node"
    /\ lm_rows' = Append(lm_rows, <<ToString(lm_page[w]), "Page">>)
    /\ lm_pc' = [lm_pc EXCEPT ![w] = "idle"]
    /\ lm_page' = [lm_page EXCEPT ![w] = 0]
    /\ UNCHANGED <<LimitRest, lm_next, lm_counter, lm_passed, lm_stats>>

NextLimit ==
    \E w \in Workers :
        \/ LmTake(w)
        \/ LmLimitCheck(w)
        \/ LmIncArticles(w)
        \/ LmWriteNode(w)

SpecLimit == InitLimit /\ [][NextLimit]_vars

LimitEndOfStream == lm_next > NumLimitPages /\ \A w \in Workers : lm_pc[w] = "idle"

\* C18: with a page limit n, whatever the interleaving of the workers, at
\* most n of the pages that passed the resume filter, of any type, are
\* processed; so at most n node rows are written and stats.articles grows
\* by at most n in the run.
C18_LimitBoundsWork ==
    lm_limit # None =>
        /\ lm_passed \subseteq PassFilter
        /\ Cardinality(lm_passed) <= lm_limit[1]
        /\ Len(lm_rows) <= lm_limit[1]
        /\ lm_stats - lm_base <= lm_limit[1]

\* a resumed run with limit 1 has ended: two pages passed the filter, an
\* article was processed and the other page was turned away
C18_Witness ==
    /\ LimitEndOfStream
    /\ lm_limit = Some(1)
    /\ lm_after >= 1
    /\ Cardinality(PassFilter) >= 2
    /\ Cardinality(lm_passed) = 1
    /\ Len(lm_rows) = 1
    /\ lm_stats = lm_base + 1

\* =========================================================================
\* ShardedCsvWriter (src/extract.rs 86-121) and the eight tables it is used
\* for, specification SpecShards.
\* =========================================================================
MaxShardFiles == 4

\* the base names run_extraction passes to ShardedCsvWriter::new
TableNames == {"nodes", "edges", "categories", "article_categories", "image_nodes",
               "article_images", "external_link_nodes", "article_external_links"}
\* the shard counts tried: the small ones and one with a two-digit index
ShardCountsTried == (1..MaxShardFiles) \cup {12}
ShardPageIds == {4, 10, 1001}

\* format!("{:03}", shard): the decimal digits, zero-padded to width 3
pad3(shard) ==
    LET digits == ToString(shard) IN
    IF Len(digits) >= 3 THEN digits
    ELSE IF Len(digits) = 2 THEN "0" \o digits
    ELSE "00" \o digits

\* the file name ShardedCsvWriter::new gives shard `shard` of base_name
shard_filename(base_name, shard, shards) ==
    IF shards = 1
    THEN base_name \o ".csv"
    ELSE base_name \o "_" \o pad3(shard) \o ".csv"

\* ShardedCsvWriter::new: the writers, in the order of the loop (writers[0]
\* is the first element)
new_writers(base_name, shards) ==
    [k \in 1..shards |-> shard_filename(base_name, k - 1, shards)]

\* ShardedCsvWriter::shard_for(page_id) on the Vec writers
writer_for_next(writers, page_id) == writers[((page_id + 1) % Len(writers)) + 1]

writer_for(writers, page_id) == writers[(page_id % Len(writers)) + 1]

InitShards ==
    /\ sd_count \in ShardCountsTried
    /\ sd_writers = [t \in TableNames |-> new_writers(t, sd_count)]
    /\ sd_files = [f \in {shard_filename(t, k, sd_count) : t \in TableNames, k \in 0..(sd_count - 1)}
                     |-> <<>>]
    /\ sd_todo = ShardPageIds
    /\ ExtractOff /\ IndexOff /\ DedupOff /\ SeeAlsoOff /\ StoreOff /\ EdgesOff /\ LimitOff /\ LaterOff

\* the closure on one page: it has rows for the tables in `tables`, and
\* writes each through X_writer.shard_for(page.id)
SdProcessPage(id, tables) ==
    /\ id \in sd_todo
    /\ sd_todo' = sd_todo \ {id}
    /\ sd_files' = [f \in DOMAIN sd_files |->
                      IF \E t \in tables : writer_for(sd_writers[t], id) = f
                      THEN Append(sd_files[f], <<id, CHOOSE t \in tables : writer_for(sd_writers[t], id) = f>>)
                      ELSE sd_files[f]]
    /\ UNCHANGED <<storeVars, edgeVars, limitVars, laterVars, extractVars, indexVars, dedupVars,
                   seeAlsoVars, sd_count, sd_writers>>

NextShards ==
    \E id \in ShardPageIds, tables \in {TableNames} \cup {{t} : t \in TableNames} :
        SdProcessPage(id, tables)

SpecShards == InitShards /\ [][NextShards]_vars

\* the name of shard k of a table, digit by digit
Digit == <<"0", "1", "2", "3", "4", "5", "6", "7", "8", "9">>
NameOfShard(base, k) ==
    base \o "_" \o Digit[(k \div 100) + 1] \o Digit[((k \div 10) % 10) + 1] \o Digit[(k % 10) + 1] \o ".csv"
\* the files in which a row of page id for table t is found
FilesHolding(id, t) ==
    {f \in DOMAIN sd_files : \E k \in 1..Len(sd_files[f]) : sd_files[f][k] = <<id, t>>}

\* C19: every row of a page, in each of the eight tables, is in the shard
\* of index page_id mod csv_shard_count of that table and in no other; that
\* shard is the file <base>.csv when there is one shard and <base>_NNN.csv,
\* NNN the index in three digits, otherwise: with 4 shards the rows of id
\* 1001 are in nodes_001.csv and those of id 4 in nodes_000.csv.
C19_RowsInShardOfPageId ==
    /\ \A id \in ShardPageIds, t \in TableNames :
          FilesHolding(id, t) \subseteq
             {IF sd_count = 1 THEN t \o ".csv" ELSE NameOfShard(t, id % sd_count)}
    /\ sd_count = 4 =>
          /\ FilesHolding(1001, "nodes") \subseteq {"nodes_001.csv"}
          /\ FilesHolding(4, "nodes") \subseteq {"nodes_000.csv"}
          /\ FilesHolding(10, "edges") \subseteq {"edges_002.csv"}
    /\ sd_count = 12 => FilesHolding(10, "article_images") \subseteq {"article_images_010.csv"}
    /\ sd_count = 1 => FilesHolding(1001, "categories") \subseteq {"categories.csv"}

\* with 4 shards the node rows of ids 1001 and 4 are written, each to its file
C19_Witness ==
    /\ sd_count = 4
    /\ FilesHolding(1001, "nodes") = {"nodes_001.csv"}
    /\ FilesHolding(4, "nodes") = {"nodes_000.csv"}
    /\ FilesHolding(1001, "article_external_links") = {"article_external_links_001.csv"}

\* ------------------------------------------------------------------------
\* CheckpointManager::save followed by load_if_valid, with the ten counters
\* of ExtractionStats (specification SpecSnapshot)
\* ------------------------------------------------------------------------
MaxCounted == 2

\* src/stats.rs: the fields of ExtractionStats, and of CheckpointStats, in
\* declaration order
StatFields ==
    <<"articles_processed", "edges_extracted", "blobs_written", "invalid_links",
      "categories_found", "category_edges", "see_also_edges", "infoboxes_extracted",
      "images_found", "external_links_found">>

StatNames == {StatFields[k] : k \in 1..Len(StatFields)}

\* ExtractionStats::new
new_stats == [f \in StatNames |-> 0]

RECURSIVE StatsTotalFrom(_, _)
StatsTotalFrom(st, k) ==
    IF k > Len(StatFields) THEN 0 ELSE st[StatFields[k]] + StatsTotalFrom(st, k + 1)

StatsTotal(st) == StatsTotalFrom(st, 1)

\* ExtractionStats::to_checkpoint: each accessor loads the field it is named for
to_checkpoint(st) ==
    [articles_processed |-> st.articles_processed,
     edges_extracted |-> st.edges_extracted,
     blobs_written |-> st.blobs_written,
     invalid_links |-> st.invalid_links,
     categories_found |-> st.categories_found,
     category_edges |-> st.category_edges,
     see_also_edges |-> st.see_also_edges,
     infoboxes_extracted |-> st.infoboxes_extracted,
     images_found |-> st.images_found,
     external_links_found |-> st.external_links_found]

stats_from_checkpoint_swapped(cp) ==
    [articles_processed |-> cp.articles_processed,
     edges_extracted |-> cp.see_also_edges,
     blobs_written |-> cp.blobs_written,
     invalid_links |-> cp.invalid_links,
     categories_found |-> cp.categories_found,
     category_edges |-> cp.category_edges,
     see_also_edges |-> cp.edges_extracted,
     infoboxes_extracted |-> cp.infoboxes_extracted,
     images_found |-> cp.images_found,
     external_links_found |-> cp.external_links_found]

\* ExtractionStats::from_checkpoint
stats_from_checkpoint(cp) ==
    [articles_processed |-> cp.articles_processed,
     edges_extracted |-> cp.edges_extracted,
     blobs_written |-> cp.blobs_written,
     invalid_links |-> cp.invalid_links,
     categories_found |-> cp.categories_found,
     category_edges |-> cp.category_edges,
     see_also_edges |-> cp.see_also_edges,
     infoboxes_extracted |-> cp.infoboxes_extracted,
     images_found |-> cp.images_found,
     external_links_found |-> cp.external_links_found]

\* bincode of a Checkpoint: the fields in declaration order, those of the
\* nested CheckpointStats after last_processed_id
serialize_into(checkpoint) ==
    <<checkpoint.version, checkpoint.input_path, checkpoint.input_mtime,
      checkpoint.output_dir, checkpoint.shard_count, checkpoint.last_processed_id>>
    \o [k \in 1..Len(StatFields) |-> checkpoint.stats[StatFields[k]]]

\* bincode's decoding of those bytes into a Checkpoint, by position
deserialize_checkpoint(bytes) ==
    [version |-> bytes[1], input_path |-> bytes[2], input_mtime |-> bytes[3],
     output_dir |-> bytes[4], shard_count |-> bytes[5], last_processed_id |-> bytes[6],
     stats |-> [f \in StatNames |->
                  bytes[6 + (CHOOSE k \in 1..Len(StatFields) : StatFields[k] = f)]]]

\* The run parameters of the behaviours of SpecSnapshot
SnapArgs == Args("dump_a", "out_a", 1, 1)

InitSnapshot ==
    /\ sn_stats = new_stats
    /\ sn_page_id = 0
    /\ sn_taken = None
    /\ sn_file = [state |-> "absent"]
    /\ sn_loaded = None
    /\ CallOff /\ DryOff /\ LastOff
    /\ ExtractOff /\ IndexOff /\ DedupOff /\ SeeAlsoOff /\ StoreOff
    /\ EdgesOff /\ LimitOff /\ ShardsOff

SnapRest == <<storeVars, edgeVars, limitVars, shardVars, callVars, dryVars, lastVars, extractVars, indexVars,
              dedupVars, seeAlsoVars>>

\* ExtractionStats::inc_* / add_*: one of the ten counters grows by one
SnCount(f) ==
    /\ StatsTotal(sn_stats) < MaxCounted
    /\ sn_stats' = [sn_stats EXCEPT ![f] = @ + 1]
    /\ UNCHANGED <<sn_page_id, sn_taken, sn_file, sn_loaded, SnapRest>>

\* CheckpointManager::save(page_id, stats): the Checkpoint is built from
\* stats.to_checkpoint(), serialized to the temporary file and renamed
SnSave(page_id) ==
    /\ sn_page_id' = page_id
    /\ sn_taken' = Some(sn_stats)
    /\ sn_file' = [state |-> "complete",
                   bytes |-> serialize_into(
                       [version |-> CHECKPOINT_VERSION,
                        input_path |-> SnapArgs.input_path,
                        input_mtime |-> RunInput.mtime,
                        output_dir |-> SnapArgs.output_dir,
                        shard_count |-> SnapArgs.shard_count,
                        last_processed_id |-> page_id,
                        stats |-> to_checkpoint(sn_stats)])]
    /\ sn_loaded' = None
    /\ UNCHANGED <<sn_stats, SnapRest>>

\* load_if_valid with the parameters of the run that saved, over the input as
\* it was; run_extract restores the statistics from what it returns
SnLoad ==
    /\ sn_file.state = "complete"
    /\ LET result == load_checkpoint([state |-> "complete",
                                      cp |-> deserialize_checkpoint(sn_file.bytes)],
                                     SnapArgs, RunInput.mtime)
       IN  sn_loaded' = Some([result |-> result,
                              stats |-> IF result.ok /\ result.value # None
                                        THEN stats_from_checkpoint(result.value[1].stats)
                                        ELSE new_stats])
    /\ UNCHANGED <<sn_stats, sn_page_id, sn_taken, sn_file, SnapRest>>

NextSnapshot ==
    \/ \E f \in StatNames : SnCount(f)
    \/ \E page_id \in 1..NumPages : SnSave(page_id)
    \/ SnLoad

SpecSnapshot == InitSnapshot /\ [][NextSnapshot]_vars

\* C27: a load_if_valid that follows save(page_id, stats), with the same run
\* parameters over the unchanged input, returns a checkpoint whose
\* last_processed_id is page_id, and the statistics restored from it have each
\* of the ten counters equal to its value when save took the snapshot.
C27_SaveLoadRestoresTenCounters ==
    sn_loaded # None =>
        /\ sn_loaded[1].result.ok
        /\ sn_loaded[1].result.value # None
        /\ sn_loaded[1].result.value[1].last_processed_id = sn_page_id
        /\ \A k \in 1..Len(StatFields) :
              sn_loaded[1].stats[StatFields[k]] = sn_taken[1][StatFields[k]]

C27_Witness ==
    /\ sn_loaded # None
    /\ sn_taken[1].edges_extracted = 1
    /\ sn_taken[1].see_also_edges = 0
    /\ sn_stats.see_also_edges = 1
    /\ sn_page_id = 2

\* ------------------------------------------------------------------------
\* WikiReader::next over the XML events of a dump (specification SpecReader)
\* ------------------------------------------------------------------------
\* A title as the reader sees it: a prefix up to and including the colon, if
\* any, followed by the rest
TitleText(prefix, name) == IF prefix = "" THEN <<name>> ELSE <<prefix, ":", name>>

\* str::starts_with
starts_with(s, prefix) == Len(s) >= Len(prefix) /\ SubSeq(s, 1, Len(prefix)) = prefix

\* s.trim().parse::<i32>().ok() and s.trim().parse::<u32>().ok() on the
\* character data of <ns> and <id>
parse_int(s) ==
    CASE s = "0" -> Some(0)
      [] s = " 1 " -> Some(1)
      [] s = "2" -> Some(2)
      [] s = "14" -> Some(14)
      [] OTHER -> None

\* The <page> elements a dump can hold. Each child element may be missing;
\* the children come in the order of the MediaWiki export schema.
PageSources(name, id_text) ==
    [title : {None} \cup {Some(TitleText(pre, name)) :
                            pre \in {"", "File", "Category", "Template", "Help"}},
     ns : {None, Some("0"), Some("14")},
     id : {None, Some(id_text)},
     redirect : {None, Some("X")},
     timestamp : {None, Some("time of " \o name)},
     text : {None, Some("text of " \o name)}]

\* quick_xml's events for one <page> element
PageEvents(p) ==
    <<[kind |-> "Start", name |-> "page"]>>
    \o (IF p.title = None THEN <<>>
        ELSE <<[kind |-> "Start", name |-> "title"], [kind |-> "Text", text |-> p.title[1]],
               [kind |-> "End", name |-> "title"]>>)
    \o (IF p.ns = None THEN <<>>
        ELSE <<[kind |-> "Start", name |-> "ns"], [kind |-> "Text", text |-> p.ns[1]],
               [kind |-> "End", name |-> "ns"]>>)
    \o (IF p.id = None THEN <<>>
        ELSE <<[kind |-> "Start", name |-> "id"], [kind |-> "Text", text |-> p.id[1]],
               [kind |-> "End", name |-> "id"]>>)
    \o (IF p.redirect = None THEN <<>>
        ELSE <<[kind |-> "Empty", name |-> "redirect", title |-> p.redirect[1]]>>)
    \o (IF p.timestamp = None THEN <<>>
        ELSE <<[kind |-> "Start", name |-> "timestamp"],
               [kind |-> "Text", text |-> p.timestamp[1]],
               [kind |-> "End", name |-> "timestamp"]>>)
    \o (IF p.text = None THEN <<>>
        ELSE <<[kind |-> "Start", name |-> "text"], [kind |-> "Text", text |-> p.text[1]],
               [kind |-> "End", name |-> "text"]>>)
    \o <<[kind |-> "End", name |-> "page"]>>

RECURSIVE StreamEvents(_)
StreamEvents(stream) ==
    IF stream = <<>> THEN <<>> ELSE PageEvents(Head(stream)) \o StreamEvents(Tail(stream))

\* The locals of WikiReader::next as it declares them
NextLocals ==
    [current_id |-> None, current_title |-> None, current_text |-> None,
     redirect_target |-> None, current_ns |-> None, current_timestamp |-> None,
     in_title |-> FALSE, in_id |-> FALSE, in_text |-> FALSE, in_ns |-> FALSE,
     in_timestamp |-> FALSE]

\* The page_type expression of the b"page" arm
classify(l) ==
    IF l.redirect_target # None
    THEN [tag |-> "Redirect", target |-> l.redirect_target[1]]
    ELSE IF l.current_ns # None
    THEN (IF l.current_ns[1] = 0 THEN [tag |-> "Article"] ELSE [tag |-> "Special"])
    ELSE IF \/ starts_with(l.current_title[1], <<"File", ":">>)
            \/ starts_with(l.current_title[1], <<"Category", ":">>)
            \/ starts_with(l.current_title[1], <<"Template", ":">>)
    THEN [tag |-> "Special"]
    ELSE [tag |-> "Article"]

\* The loop of WikiReader::next from event i on: Some(page) at the first
\* </page> that finds an id and a title, None at Eof
RECURSIVE next_loop(_, _, _)
next_loop(events, i, l) ==
    IF i > Len(events) THEN None
    ELSE LET e == events[i] IN
      CASE e.kind = "Start" ->
             next_loop(events, i + 1,
                CASE e.name = "title" -> [l EXCEPT !.in_title = TRUE]
                  [] e.name = "id" /\ l.current_id = None -> [l EXCEPT !.in_id = TRUE]
                  [] e.name = "ns" -> [l EXCEPT !.in_ns = TRUE]
                  [] e.name = "timestamp" -> [l EXCEPT !.in_timestamp = TRUE]
                  [] e.name = "text" -> [l EXCEPT !.in_text = TRUE]
                  [] OTHER -> l)
        [] e.kind = "Empty" ->
             next_loop(events, i + 1,
                IF e.name = "redirect" THEN [l EXCEPT !.redirect_target = Some(e.title)] ELSE l)
        [] e.kind = "Text" ->
             next_loop(events, i + 1,
                IF l.in_title THEN [l EXCEPT !.current_title = Some(e.text)]
                ELSE IF l.in_id THEN [l EXCEPT !.current_id = parse_int(e.text)]
                ELSE IF l.in_ns THEN [l EXCEPT !.current_ns = parse_int(e.text)]
                ELSE IF l.in_timestamp THEN [l EXCEPT !.current_timestamp = Some(e.text)]
                ELSE IF l.in_text THEN [l EXCEPT !.current_text = Some(e.text)]
                ELSE l)
        [] e.kind = "End" ->
             CASE e.name = "title" -> next_loop(events, i + 1, [l EXCEPT !.in_title = FALSE])
               [] e.name = "id" -> next_loop(events, i + 1, [l EXCEPT !.in_id = FALSE])
               [] e.name = "ns" -> next_loop(events, i + 1, [l EXCEPT !.in_ns = FALSE])
               [] e.name = "timestamp" ->
                    next_loop(events, i + 1, [l EXCEPT !.in_timestamp = FALSE])
               [] e.name = "text" -> next_loop(events, i + 1, [l EXCEPT !.in_text = FALSE])
               [] e.name = "page" ->
                    IF l.current_id # None /\ l.current_title # None
                    THEN Some([id |-> l.current_id[1], title |-> l.current_title[1],
                               page_type |-> classify(l), text |-> l.current_text,
                               ns |-> l.current_ns, timestamp |-> l.current_timestamp])
                    ELSE next_loop(events, i + 1, [l EXCEPT !.current_title = None])
               [] OTHER -> next_loop(events, i + 1, l)

\* The dumps read: one page, or a page after another one
ReaderStreams ==
    {<<p>> : p \in PageSources("A", " 1 ")}
    \cup {<<p, q>> : p \in PageSources("A", " 1 "), q \in PageSources("B", "2")}

InitReader ==
    /\ call_arg \in ReaderStreams
    /\ call_ret = None
    /\ SnapOff /\ DryOff /\ LastOff
    /\ ExtractOff /\ IndexOff /\ DedupOff /\ SeeAlsoOff /\ StoreOff
    /\ EdgesOff /\ LimitOff /\ ShardsOff

CallRest == <<storeVars, edgeVars, limitVars, shardVars, snapVars, dryVars, lastVars, extractVars, indexVars,
              dedupVars, seeAlsoVars>>

\* The first call of next() on a reader opened on the dump
ReaderNext ==
    /\ call_ret = None
    /\ call_ret' = Some(next_loop(StreamEvents(call_arg), 1, NextLocals))
    /\ UNCHANGED <<call_arg, CallRest>>

SpecReader == InitReader /\ [][ReaderNext]_vars

\* The <page> element whose closing tag made next() return: the one that
\* carries the returned title (titles are distinct within these dumps)
ClosedPage(page) == CHOOSE k \in 1..Len(call_arg) : call_arg[k].title = Some(page.title)

\* C22: on closing a page the reader classifies it, whatever the combination
\* of its elements: Redirect(X) if a redirect element with title X was
\* observed; else Special if ns is present and not 0; else Special if ns is
\* missing and the title begins with File:, Category: or Template:; otherwise
\* Article.
C22_ClassifiedByOrderedRule ==
    (call_ret # None /\ call_ret[1] # None) =>
        LET page == call_ret[1][1]
            src == call_arg[ClosedPage(page)]
        IN  page.page_type =
              IF src.redirect # None THEN [tag |-> "Redirect", target |-> src.redirect[1]]
              ELSE IF src.ns # None /\ src.ns[1] # "0" THEN [tag |-> "Special"]
              ELSE IF src.ns = None /\ src.title[1][1] \in {"File", "Category", "Template"}
                                    /\ Len(src.title[1]) > 1
              THEN [tag |-> "Special"]
              ELSE [tag |-> "Article"]


\* C32: every page record the reader emits takes its id, title, namespace,
\* timestamp, text and redirect target only from the elements of its own
\* <page> element, whatever pages come before it, pages without an id or a
\* title included: nothing of a page that was not emitted carries over.
C32_RecordFromOwnPageOnly ==
    (call_ret # None /\ call_ret[1] # None) =>
        LET page == call_ret[1][1]
            src == call_arg[ClosedPage(page)]
        IN  /\ src.id # None /\ Some(page.id) = parse_int(src.id[1])
            /\ Some(page.title) = src.title
            /\ page.ns = (IF src.ns = None THEN None ELSE parse_int(src.ns[1]))
            /\ page.timestamp = src.timestamp
            /\ page.text = src.text
            /\ (page.page_type.tag = "Redirect") = (src.redirect # None)
            /\ src.redirect # None => page.page_type.target = src.redirect[1]

\* ------------------------------------------------------------------------
\* content::strip_templates (specification SpecStrip)
\* ------------------------------------------------------------------------
MaxTextLen == 5

\* The bytes a wikitext is made of here: the two braces and a letter
TextBytes == {"{", "}", "a"}

Wikitexts == UNION {[1..n -> TextBytes] : n \in 0..MaxTextLen}

\* bytes[i], with the indices of the source (from 0)
ByteAt(bytes, i) == bytes[i + 1]

\* &text[from..to]
Slice(bytes, from, to) == SubSeq(bytes, from + 1, to)

\* The inner `while i + 1 < bytes.len()` of strip_templates: the value of i
\* when it is left
RECURSIVE skip_template(_, _, _)
skip_template(bytes, i, depth) ==
    IF ~(i + 1 < Len(bytes)) THEN i
    ELSE IF ByteAt(bytes, i) = "{" /\ ByteAt(bytes, i + 1) = "{"
    THEN skip_template(bytes, i + 2, depth + 1)
    ELSE IF ByteAt(bytes, i) = "}" /\ ByteAt(bytes, i + 1) = "}"
    THEN (IF depth - 1 = 0 THEN i + 2 ELSE skip_template(bytes, i + 2, depth - 1))
    ELSE skip_template(bytes, i + 1, depth)

\* The outer `while i < bytes.len()` and the push of the last run
RECURSIVE strip_loop(_, _, _, _)
strip_loop(bytes, i, run_start, result) ==
    IF ~(i < Len(bytes))
    THEN (IF run_start < Len(bytes) THEN result \o Slice(bytes, run_start, Len(bytes))
          ELSE result)
    ELSE IF i + 1 < Len(bytes) /\ ByteAt(bytes, i) = "{" /\ ByteAt(bytes, i + 1) = "{"
    THEN LET after == skip_template(bytes, i, 0)
         IN  strip_loop(bytes, after, after,
                        IF run_start < i THEN result \o Slice(bytes, run_start, i) ELSE result)
    ELSE strip_loop(bytes, i + 1, run_start, result)

strip_templates(bytes) == strip_loop(bytes, 0, 0, <<>>)

InitStrip ==
    /\ call_arg \in Wikitexts
    /\ call_ret = None
    /\ SnapOff /\ DryOff /\ LastOff
    /\ ExtractOff /\ IndexOff /\ DedupOff /\ SeeAlsoOff /\ StoreOff
    /\ EdgesOff /\ LimitOff /\ ShardsOff

StripCall ==
    /\ call_ret = None
    /\ call_ret' = Some(strip_templates(call_arg))
    /\ UNCHANGED <<call_arg, CallRest>>

SpecStrip == InitStrip /\ [][StripCall]_vars

\* Where the span that opens with the {{ at i ends: Some(first index after
\* its closing }}), None when it is never closed. Braces pair up from the
\* left, as strip_templates reads them.
RECURSIVE SpanEnd(_, _, _)
SpanEnd(bytes, i, depth) ==
    IF i + 1 >= Len(bytes) THEN None
    ELSE IF ByteAt(bytes, i) = "{" /\ ByteAt(bytes, i + 1) = "{"
    THEN SpanEnd(bytes, i + 2, depth + 1)
    ELSE IF ByteAt(bytes, i) = "}" /\ ByteAt(bytes, i + 1) = "}"
    THEN (IF depth = 1 THEN Some(i + 2) ELSE SpanEnd(bytes, i + 2, depth - 1))
    ELSE SpanEnd(bytes, i + 1, depth)

\* The text outside the balanced spans, from index i on; nothing from an
\* unclosed {{ on
RECURSIVE OutsideSpans(_, _)
OutsideSpans(bytes, i) ==
    IF i >= Len(bytes) THEN <<>>
    ELSE IF i + 1 < Len(bytes) /\ ByteAt(bytes, i) = "{" /\ ByteAt(bytes, i + 1) = "{"
    THEN (IF SpanEnd(bytes, i, 0) = None THEN <<>>
          ELSE OutsideSpans(bytes, SpanEnd(bytes, i, 0)[1]))
    ELSE <<ByteAt(bytes, i)>> \o OutsideSpans(bytes, i + 1)

\* C23: strip_templates returns exactly the text outside balanced {{ ... }}
\* spans, concatenated in order, and when a {{ is never closed nothing from
\* that {{ to the end of the text appears in the result.
C23_StripKeepsTextOutsideSpans ==
    call_ret # None => call_ret[1] = OutsideSpans(call_arg, 0)

\* ------------------------------------------------------------------------
\* WikiIndex::build over the pages of a dump (specification SpecBuild)
\* ------------------------------------------------------------------------
MaxDumpPages == 2

DumpTitles == {"A", "B"}

\* PageType as the reader yields it
DumpPageTypes ==
    {[tag |-> "Article"], [tag |-> "Special"]}
    \cup {[tag |-> "Redirect", target |-> t] : t \in DumpTitles}

\* The dumps: page i has id i; a title may occur more than once
PageSequences ==
    UNION {[1..n -> [title : DumpTitles, page_type : DumpPageTypes]] : n \in 0..MaxDumpPages}

\* HashMap::insert
insert(map, key, value) == [map EXCEPT ![key] = Some(value)]

\* The `for page in reader` of WikiIndex::build from page i on
RECURSIVE build_loop(_, _, _, _)
build_loop(dump, i, t2i, redir) ==
    IF i > Len(dump) THEN [title_to_id |-> t2i, redirects |-> redir]
    ELSE CASE dump[i].page_type.tag = "Article" ->
                build_loop(dump, i + 1, insert(t2i, dump[i].title, i), redir)
           [] dump[i].page_type.tag = "Redirect" ->
                build_loop(dump, i + 1, t2i, insert(redir, dump[i].title, dump[i].page_type.target))
           [] OTHER -> build_loop(dump, i + 1, t2i, redir)

\* WikiIndex::build
build(dump) == build_loop(dump, 1, [t \in DumpTitles |-> None], [t \in DumpTitles |-> None])

InitBuild ==
    /\ call_arg \in PageSequences
    /\ call_ret = None
    /\ SnapOff /\ DryOff /\ LastOff
    /\ ExtractOff /\ IndexOff /\ DedupOff /\ SeeAlsoOff /\ StoreOff
    /\ EdgesOff /\ LimitOff /\ ShardsOff

BuildCall ==
    /\ call_ret = None
    /\ call_ret' = Some(build(call_arg))
    /\ UNCHANGED <<call_arg, CallRest>>

SpecBuild == InitBuild /\ [][BuildCall]_vars

\* The last page of the dump that carries title t (0: none)
LastOccurrence(dump, t) ==
    IF \E i \in 1..Len(dump) : dump[i].title = t
    THEN CHOOSE i \in 1..Len(dump) :
            dump[i].title = t /\ \A j \in (i + 1)..Len(dump) : dump[j].title # t
    ELSE 0

\* C24: after build no title is a key of both title_to_id and redirects: of
\* the occurrences of one title the last one decides, whatever its page
\* type, and what an earlier occurrence entered is gone.
C24_NoTitleInBothMaps ==
    call_ret # None =>
        \A t \in DumpTitles :
            LET index == call_ret[1]
                last == LastOccurrence(call_arg, t)
            IN  /\ ~(index.title_to_id[t] # None /\ index.redirects[t] # None)
                /\ last # 0 =>
                     /\ index.title_to_id[t] # None => call_arg[last].page_type.tag = "Article"
                     /\ index.redirects[t] # None => call_arg[last].page_type.tag = "Redirect"

\* ------------------------------------------------------------------------
\* merge::merge_with_dedup over the shards of a node table (specification
\* SpecMerge)
\* ------------------------------------------------------------------------
MaxShardRows == 2

\* write_headers(&["id:ID(Category)", "name", ":LABEL"])
NodeHeader == <<"id:ID", "name", ":LABEL">>

\* The rows of a node table: the id column first. Two rows of one id can
\* differ in a later column.
NodeRows == {<<id, name, "Node">> : id \in {"c1", "c2"}, name \in {"x", "y"}}

\* A shard as the extraction leaves it: the header, then its rows
ShardFiles == {<<NodeHeader>> \o rows : rows \in UNION {[1..n -> NodeRows] : n \in 0..MaxShardRows}}

ShardSets == {<<f>> : f \in ShardFiles} \cup {<<f, g>> : f \in ShardFiles, g \in ShardFiles}

\* csv::Reader::headers and csv::Reader::records with has_headers (the default)
headers(file) == Head(file)
records(file) == Tail(file)

\* The `for result in reader.records()` of merge_with_dedup on one shard:
\* the id set and the output after it
RECURSIVE dedup_records(_, _, _)
dedup_records(recs, seen_ids, out) ==
    IF recs = <<>> THEN [seen_ids |-> seen_ids, out |-> out]
    ELSE LET record == Head(recs)
             node_id == record[1]
         IN  IF node_id \notin seen_ids
             THEN dedup_records(Tail(recs), seen_ids \cup {node_id}, Append(out, record))
             ELSE dedup_records(Tail(recs), seen_ids \cup {node_id}, out)

\* The `for shard in 0..shard_count` of merge_with_dedup from shard i on
RECURSIVE dedup_shards(_, _, _, _)
dedup_shards(shards, i, seen_ids, out) ==
    IF i > Len(shards) THEN out
    ELSE LET r == dedup_records(records(shards[i]), seen_ids, out)
         IN  dedup_shards(shards, i + 1, r.seen_ids, r.out)

RECURSIVE concat_shards(_, _, _)
concat_shards(shards, i, out) ==
    IF i > Len(shards) THEN out ELSE concat_shards(shards, i + 1, out \o records(shards[i]))

merge_without_dedup(shards) == concat_shards(shards, 1, <<headers(shards[1])>>)

\* merge_with_dedup: the content of <base_name>.csv
merge_with_dedup(shards) == dedup_shards(shards, 1, {}, <<headers(shards[1])>>)

InitMerge ==
    /\ call_arg \in ShardSets
    /\ call_ret = None
    /\ SnapOff /\ DryOff /\ LastOff
    /\ ExtractOff /\ IndexOff /\ DedupOff /\ SeeAlsoOff /\ StoreOff
    /\ EdgesOff /\ LimitOff /\ ShardsOff

MergeCall ==
    /\ call_ret = None
    /\ call_ret' = Some(merge_with_dedup(call_arg))
    /\ UNCHANGED <<call_arg, CallRest>>

SpecMerge == InitMerge /\ [][MergeCall]_vars

\* The data rows of all shards in shard order, then row order
RECURSIVE AllRows(_)
AllRows(shards) == IF shards = <<>> THEN <<>> ELSE Tail(Head(shards)) \o AllRows(Tail(shards))

\* C26: the merged file holds the header once and then, for each distinct
\* value of the id column over all shards, exactly one row, which is the
\* first row of that id in shard order then row order; no id is lost and
\* none appears twice.
C26_MergeKeepsFirstOfEachId ==
    call_ret # None =>
        LET out == call_ret[1]
            all == AllRows(call_arg)
            ids == {all[k][1] : k \in 1..Len(all)}
        IN  /\ out[1] = NodeHeader
            /\ \A k \in 2..Len(out) : out[k] # NodeHeader
            /\ Len(out) = 1 + Cardinality(ids)
            /\ \A id \in ids :
                  LET first == CHOOSE k \in 1..Len(all) :
                                  all[k][1] = id /\ \A j \in 1..(k - 1) : all[j][1] # id
                  IN  \E k \in 2..Len(out) : out[k] = all[first]

C26_Witness ==
    /\ call_ret # None
    /\ Len(call_arg) = 2
    /\ call_arg[1] = <<NodeHeader, <<"c1", "x", "Node">>, <<"c2", "x", "Node">>>>
    /\ call_arg[2] = <<NodeHeader, <<"c2", "y", "Node">>, <<"c1", "y", "Node">>>>
    /\ Len(call_ret[1]) = 3

\* ------------------------------------------------------------------------
\* run_extraction with the dry_run flag and with failing writes
\* (specification SpecDryRun). The pages are articles 1..NumPages, each with
\* one resolvable link; they are taken one after another.
\* ------------------------------------------------------------------------
\* The checkpoint an interrupted earlier run left, and the output directory
\* as that run left it (csv_shards = 1, two blob shards)
ResumeFrom == [last_processed_id |-> 1, stats |-> [articles |-> 1, edges |-> 1, blobs |-> 1]]

\* ShardedCsvWriter::new for csv_shards = 1: one file <base_name>.csv per table
CsvFiles == {<<"csv", shard_filename(t, 0, 1)>> : t \in TableNames}

\* format!("{}/blobs/{:03}", output_dir, shard)
blob_dir(shard) == "blobs/" \o pad3(shard)

BlobDirs(shard_count) == {<<"dir", blob_dir(shard)>> : shard \in 0..(shard_count - 1)}

PriorFiles ==
    CsvFiles \cup BlobDirs(2)
    \cup {<<"blob", blob_dir(1 % 2), 1, "written">>, <<"checkpoint", ResumeFrom.last_processed_id>>}

create_csv_file_ignores_dry_run(files, file, dry_run) == files \cup {file}

\* create_csv_writer: a sink when dry_run, else the file is created (or, when
\* resuming, opened for append if it exists)
create_csv_file(files, file, dry_run) == IF dry_run THEN files ELSE files \cup {file}

RECURSIVE create_writers(_, _, _)
create_writers(files, todo, dry_run) ==
    IF todo = {} THEN files
    ELSE LET file == CHOOSE f \in todo : TRUE
         IN  create_writers(create_csv_file(files, file, dry_run), todo \ {file}, dry_run)

log_and_abort(at) == "err"

\* `if let Err(e) = ... { warn!(...) }`: the error is logged, the closure goes on
log_and_continue(at) == at

InitDryRun ==
    /\ dr_dry_run \in BOOLEAN
    /\ dr_mgr \in BOOLEAN
    /\ dr_resume \in {None, Some(ResumeFrom)}
    /\ dr_phase = "setup"
    /\ dr_next = 1
    /\ dr_stats = [articles |-> 0, edges |-> 0, blobs |-> 0]
    /\ dr_files = IF dr_resume = None THEN {} ELSE PriorFiles
    /\ dr_before = dr_files
    /\ dr_processed = {}
    /\ dr_failed = {}
    /\ SnapOff /\ CallOff /\ LastOff
    /\ ExtractOff /\ IndexOff /\ DedupOff /\ SeeAlsoOff /\ StoreOff
    /\ EdgesOff /\ LimitOff /\ ShardsOff

DryRest == <<storeVars, edgeVars, limitVars, shardVars, snapVars, callVars, lastVars, extractVars,
             indexVars, dedupVars, seeAlsoVars>>

\* run_extraction up to the parallel loop: the statistics, the blob shard
\* directories (unless dry_run) and the eight tables' writers
DrSetup ==
    /\ dr_phase = "setup"
    /\ dr_stats' = IF dr_resume = None THEN dr_stats ELSE dr_resume[1].stats
    /\ dr_files' = create_writers(IF dr_dry_run THEN dr_files ELSE dr_files \cup BlobDirs(2),
                                  CsvFiles, dr_dry_run)
    /\ dr_phase' = "pages"
    /\ UNCHANGED <<dr_dry_run, dr_mgr, dr_resume, dr_next, dr_before, dr_processed, dr_failed,
                   DryRest>>

\* A `?` of the setup returns the error: the output directory cannot be
\* created or written, a table cannot be created, the dump cannot be opened
DrSetupFails ==
    /\ dr_phase = "setup"
    /\ dr_phase' = "err"
    /\ UNCHANGED <<dr_dry_run, dr_mgr, dr_resume, dr_next, dr_stats, dr_files, dr_before,
                   dr_processed, dr_failed, DryRest>>

\* The writes that can fail for one page
PageFaults == {"none", "csv_row", "blob_create", "blob_write"}

\* The filter and the closure on the next page of the stream. A failing
\* write needs a file to write to: none fails when dry_run.
DrPage(fault) ==
    /\ dr_phase = "pages"
    /\ dr_next <= NumPages
    /\ fault # "none" => ~dr_dry_run
    /\ dr_next' = dr_next + 1
    /\ IF dr_resume # None /\ ~(dr_next > dr_resume[1].last_processed_id)
       THEN UNCHANGED <<dr_stats, dr_files, dr_processed, dr_failed, dr_phase>>
       ELSE LET id == dr_next
                dir == blob_dir(id % 2)
                blob_files ==
                    IF dr_dry_run \/ fault = "blob_create" THEN {}
                    ELSE IF fault = "blob_write" THEN {<<"blob", dir, id, "partial">>}
                    ELSE {<<"blob", dir, id, "written">>}
                kept == {f \in dr_files : ~(f[1] = "blob" /\ f[3] = id /\ blob_files # {})
                                          /\ ~(f[1] = "checkpoint" /\ dr_mgr)}
            IN  /\ dr_processed' = dr_processed \cup {id}
                /\ dr_failed' = IF fault = "none" THEN dr_failed ELSE dr_failed \cup {id}
                /\ dr_stats' = [articles |-> dr_stats.articles + 1,
                                edges |-> dr_stats.edges + 1,
                                blobs |-> IF dr_dry_run \/ fault \in {"blob_create", "blob_write"}
                                          THEN dr_stats.blobs ELSE dr_stats.blobs + 1]
                /\ dr_files' = kept \cup blob_files
                                 \cup (IF dr_mgr THEN {<<"checkpoint", id>>} ELSE {})
                /\ dr_phase' = IF fault = "none" THEN dr_phase ELSE log_and_continue(dr_phase)
    /\ UNCHANGED <<dr_dry_run, dr_mgr, dr_resume, dr_before, DryRest>>

\* The stream has ended: Ok(stats)
DrFinish ==
    /\ dr_phase = "pages"
    /\ dr_next > NumPages
    /\ dr_phase' = "ok"
    /\ UNCHANGED <<dr_dry_run, dr_mgr, dr_resume, dr_next, dr_stats, dr_files, dr_before,
                   dr_processed, dr_failed, DryRest>>

NextDryRun ==
    \/ DrSetup
    \/ DrSetupFails
    \/ \E fault \in PageFaults : DrPage(fault)
    \/ DrFinish

SpecDryRun == InitDryRun /\ [][NextDryRun]_vars

\* What the statistics were when the closure first ran
StartStats == IF dr_resume = None THEN [articles |-> 0, edges |-> 0, blobs |-> 0]
              ELSE dr_resume[1].stats

CountersAccumulated ==
    /\ dr_stats.articles = StartStats.articles + Cardinality(dr_processed)
    /\ dr_stats.edges = StartStats.edges + Cardinality(dr_processed)

C25_PageWriteFailuresAbsorbed ==
    /\ dr_failed # {} => dr_phase \in {"pages", "ok"}
    /\ dr_phase = "ok" =>
          dr_processed = {id \in 1..NumPages :
                             dr_resume = None \/ id > dr_resume[1].last_processed_id}

C25_Witness ==
    /\ dr_phase = "ok"
    /\ dr_failed = 1..NumPages
    /\ \E f \in dr_files : f[1] = "blob" /\ f[4] = "partial"

\* ------------------------------------------------------------------------
\* The link loop of run_extraction on the captured targets of one article
\* (specification SpecLinks)
\* ------------------------------------------------------------------------
MaxTargets == 2

\* The prefixes tested by is_namespace_link
NamespaceNames ==
    <<"Category", "File", "Image", "Template", "Wikipedia", "Help", "Portal", "Draft", "User",
      "Module", "MediaWiki">>

\* The captured targets: a name, a namespace-like first part and a colon
\* before it, a section anchor after it, an anchor alone, a second '#'
PlainTargets ==
    {<<"A">>, <<"B">>, <<"category", ":", "A">>, <<"Talk", ":", "A">>, <<"Category">>}
    \cup {<<NamespaceNames[k], ":", "A">> : k \in 1..Len(NamespaceNames)}

RawTargets ==
    PlainTargets
    \cup {t \o <<"#", "s">> : t \in PlainTargets}
    \cup {<<"#", "s">>, <<"A", "#", "s", "#", "t">>, <<"A", "#", "Category", ":", "A">>}

\* The titles WikiIndex::resolve_id finds, with their ids
LinkIndexes ==
    {<<>>,
     [t \in {<<"A">>} |-> 1],
     [t \in {<<"A">>, <<"Category", ":", "A">>, <<"category", ":", "A">>, <<>>} |-> 1]}

is_namespace_link_nine(target) ==
    \E k \in 3..Len(NamespaceNames) : starts_with(target, <<NamespaceNames[k], ":">>)

\* is_namespace_link
is_namespace_link(target) ==
    \E k \in 1..Len(NamespaceNames) : starts_with(target, <<NamespaceNames[k], ":">>)

\* target.split('#').next(): the part before the first '#'
RECURSIVE strip_section_anchor(_)
strip_section_anchor(target) ==
    IF target = <<>> \/ Head(target) = "#" THEN <<>>
    ELSE <<Head(target)>> \o strip_section_anchor(Tail(target))

\* The `for caps in LINK_REGEX.captures_iter(text)` of the closure from
\* capture i on: local_edges and invalid_count when it ends
RECURSIVE link_loop(_, _, _, _, _)
link_loop(targets, index, i, edges, invalid) ==
    IF i > Len(targets) THEN [local_edges |-> edges, invalid_count |-> invalid]
    ELSE LET target_title == strip_section_anchor(targets[i]) IN
         IF target_title = <<>> \/ is_namespace_link(target_title)
         THEN link_loop(targets, index, i + 1, edges, invalid)
         ELSE IF target_title \in DOMAIN index
         THEN link_loop(targets, index, i + 1,
                        Append(edges, [from |-> i, end |-> index[target_title]]), invalid)
         ELSE link_loop(targets, index, i + 1, edges, invalid + 1)

InitLinks ==
    /\ call_arg \in [targets : UNION {[1..n -> RawTargets] : n \in 1..MaxTargets},
                     index : LinkIndexes]
    /\ call_ret = None
    /\ SnapOff /\ DryOff /\ LastOff
    /\ ExtractOff /\ IndexOff /\ DedupOff /\ SeeAlsoOff /\ StoreOff
    /\ EdgesOff /\ LimitOff /\ ShardsOff

LinksCall ==
    /\ call_ret = None
    /\ call_ret' = Some(link_loop(call_arg.targets, call_arg.index, 1, <<>>, 0))
    /\ UNCHANGED <<call_arg, CallRest>>

SpecLinks == InitLinks /\ [][LinksCall]_vars

\* The target up to its first '#', read off where that '#' stands
BeforeAnchor(target) ==
    IF \E k \in 1..Len(target) : target[k] = "#"
    THEN SubSeq(target, 1, (CHOOSE k \in 1..Len(target) :
                               target[k] = "#" /\ \A j \in 1..(k - 1) : target[j] # "#") - 1)
    ELSE target

\* Empty after the cut, or one of the eleven prefixes in front
Skipped(target) ==
    LET t == BeforeAnchor(target) IN
    \/ t = <<>>
    \/ /\ Len(t) >= 2
       /\ t[2] = ":"
       /\ t[1] \in {"Category", "File", "Image", "Template", "Wikipedia", "Help", "Portal",
                    "Draft", "User", "Module", "MediaWiki"}

\* C35: a link whose target, cut at the first '#', is empty or begins with
\* one of the eleven namespace prefixes gives no edge row and no
\* invalid-link count; every other link gives exactly one edge row if its
\* target resolves and exactly one invalid-link count if it does not.
C35_LinkGivesRowOrInvalidOrNothing ==
    call_ret # None =>
        LET targets == call_arg.targets
            out == call_ret[1]
            RowsOf35(i) == Cardinality({k \in 1..Len(out.local_edges) :
                                           out.local_edges[k].from = i})
            others == {i \in 1..Len(targets) : ~Skipped(targets[i])}
            resolving == {i \in others : BeforeAnchor(targets[i]) \in DOMAIN call_arg.index}
        IN  /\ \A i \in 1..Len(targets) : RowsOf35(i) = IF i \in resolving THEN 1 ELSE 0
            /\ out.invalid_count = Cardinality(others \ resolving)

C35_Witness ==
    /\ call_ret # None
    /\ call_arg.targets = <<<<"Category", ":", "A", "#", "s">>, <<"A", "#", "Category", ":", "A">>>>
    /\ <<"Category", ":", "A">> \in DOMAIN call_arg.index
    /\ Len(call_ret[1].local_edges) = 1

\* ------------------------------------------------------------------------
\* CheckpointManager::maybe_save called by one thread, call after call
\* (specification SpecMaybeSave)
\* ------------------------------------------------------------------------
MaxCalls == 6

maybe_save_no_reset(pages_since_save_now, every) ==
    LET count == pages_since_save_now + 1 IN
    IF count >= every
    THEN [ret |-> TRUE, saved |-> TRUE, pages_since_save |-> count]
    ELSE [ret |-> FALSE, saved |-> FALSE, pages_since_save |-> count]

\* maybe_save with nobody else on the manager: the fetch_add, the test
\* against the interval, the re-read under the mutex, save, the reset
maybe_save(pages_since_save_now, every) ==
    LET count == pages_since_save_now + 1 IN
    IF count >= every
    THEN LET current == count IN
         IF current < every
         THEN [ret |-> FALSE, saved |-> FALSE, pages_since_save |-> count]
         ELSE [ret |-> TRUE, saved |-> TRUE, pages_since_save |-> 0]
    ELSE [ret |-> FALSE, saved |-> FALSE, pages_since_save |-> count]

InitMaybeSave ==
    /\ ms_interval \in 1..MaxInterval
    /\ ms_count = 0
    /\ ms_file = None
    /\ ms_log = <<>>
    /\ SnapOff /\ CallOff /\ DryOff /\ LoadOff /\ SinkOff /\ RowsOff
    /\ ExtractOff /\ IndexOff /\ DedupOff /\ SeeAlsoOff /\ StoreOff
    /\ EdgesOff /\ LimitOff /\ ShardsOff

SeriesRest == <<storeVars, edgeVars, limitVars, shardVars, snapVars, callVars, dryVars, loadVars, sinkVars, rowVars,
                extractVars, indexVars, dedupVars, seeAlsoVars>>

\* One call maybe_save(page_id, stats); save puts page_id into the file
MsCall(page_id) ==
    /\ Len(ms_log) < MaxCalls
    /\ LET r == maybe_save(ms_count, ms_interval) IN
       /\ ms_count' = r.pages_since_save
       /\ ms_file' = IF r.saved THEN Some(page_id) ELSE ms_file
       /\ ms_log' = Append(ms_log, [page_id |-> page_id, ret |-> r.ret,
                                    wrote |-> r.saved, file |-> ms_file'])
    /\ UNCHANGED <<ms_interval, SeriesRest>>

NextMaybeSave == \E page_id \in 1..NumPages : MsCall(page_id)

SpecMaybeSave == InitMaybeSave /\ [][NextMaybeSave]_vars

\* C34: maybe_save returns true exactly when that call wrote a checkpoint;
\* in a sequential series of calls with interval n a checkpoint is written,
\* with the page id passed to that call, on every n-th call and on no other,
\* and the page counter restarts from 0 after each save.
C34_SavesEveryNthCall ==
    /\ \A k \in 1..Len(ms_log) :
          /\ ms_log[k].ret = ms_log[k].wrote
          /\ ms_log[k].wrote = (k % ms_interval = 0)
          /\ ms_log[k].wrote => ms_log[k].file = Some(ms_log[k].page_id)
          /\ ~ms_log[k].wrote =>
                ms_log[k].file = (IF k = 1 THEN None ELSE ms_log[k - 1].file)
    /\ ms_count = Len(ms_log) % ms_interval

C34_Witness ==
    /\ ms_interval = 2
    /\ Len(ms_log) = 5
    /\ ms_log[2].wrote /\ ms_log[2].page_id = 1
    /\ ms_log[4].wrote /\ ms_log[4].page_id = 2
    /\ ms_log[5].page_id = 1 /\ ms_file = Some(2)

\* ------------------------------------------------------------------------
\* import::load_csv_files: the throttled LOAD CSV queries of one table
\* (specification SpecLoad)
\* ------------------------------------------------------------------------
MaxFiles == 3
MaxParallel == 2

FileIds == 1..ld_files

Min(a, b) == IF a <= b THEN a ELSE b

\* let initial = max_parallel.min(files.len())
initial(max_parallel, files_len) == Min(max_parallel, files_len)

InitLoad ==
    /\ ld_files \in 0..MaxFiles
    /\ ld_max_parallel \in 0..MaxParallel
    /\ ld_pc = "start"
    /\ ld_iter = 0
    /\ ld_task = [f \in FileIds |-> "none"]
    /\ ld_in_flight = {}
    /\ ld_queries = [f \in FileIds |-> 0]
    /\ ld_completed = 0
    /\ ld_failed = 0
    /\ ld_result = None
    /\ SnapOff /\ CallOff /\ DryOff /\ SeriesOff /\ SinkOff /\ RowsOff
    /\ ExtractOff /\ IndexOff /\ DedupOff /\ SeeAlsoOff /\ StoreOff
    /\ EdgesOff /\ LimitOff /\ ShardsOff

LoadRest == <<storeVars, edgeVars, limitVars, shardVars, snapVars, callVars, dryVars, seriesVars, sinkVars, rowVars,
              extractVars, indexVars, dedupVars, seeAlsoVars>>

\* `if files.is_empty() { return Ok(()) }`
LdEmpty ==
    /\ ld_pc = "start"
    /\ ld_files = 0
    /\ ld_pc' = "returned"
    /\ ld_result' = Some("ok")
    /\ UNCHANGED <<ld_files, ld_max_parallel, ld_iter, ld_task, ld_in_flight, ld_queries,
                   ld_completed, ld_failed, LoadRest>>

\* The `for _ in 0..initial`: a task is spawned for each of the first files
LdStart ==
    /\ ld_pc = "start"
    /\ ld_files # 0
    /\ LET first == 1..initial(ld_max_parallel, ld_files) IN
       /\ ld_iter' = Cardinality(first)
       /\ ld_task' = [f \in FileIds |-> IF f \in first THEN "running" ELSE ld_task[f]]
       /\ ld_queries' = [f \in FileIds |-> IF f \in first THEN ld_queries[f] + 1
                                           ELSE ld_queries[f]]
       /\ ld_in_flight' = first
    /\ ld_pc' = "loop"
    /\ UNCHANGED <<ld_files, ld_max_parallel, ld_completed, ld_failed, ld_result, LoadRest>>

\* A spawned task: graph.run(query(&cypher)).await ends, with Ok or Err
LdQueryEnds(f, outcome) ==
    /\ f \in FileIds
    /\ ld_task[f] = "running"
    /\ ld_task' = [ld_task EXCEPT ![f] = outcome]
    /\ UNCHANGED <<ld_files, ld_max_parallel, ld_pc, ld_iter, ld_in_flight, ld_queries,
                   ld_completed, ld_failed, ld_result, LoadRest>>

\* One turn of `while let Some(join_result) = in_flight.next().await`: a
\* finished task is taken out, counted, and the next file, if any, is started
LdLoop(f) ==
    /\ ld_pc = "loop"
    /\ f \in ld_in_flight
    /\ ld_task[f] \in {"ok", "err"}
    /\ ld_completed' = IF ld_task[f] = "ok" THEN ld_completed + 1 ELSE ld_completed
    /\ ld_failed' = IF ld_task[f] = "err" THEN ld_failed + 1 ELSE ld_failed
    /\ IF ld_iter < ld_files
       THEN /\ ld_iter' = ld_iter + 1
            /\ ld_task' = [ld_task EXCEPT ![ld_iter + 1] = "running"]
            /\ ld_queries' = [ld_queries EXCEPT ![ld_iter + 1] = @ + 1]
            /\ ld_in_flight' = (ld_in_flight \ {f}) \cup {ld_iter + 1}
       ELSE /\ ld_in_flight' = ld_in_flight \ {f}
            /\ UNCHANGED <<ld_iter, ld_task, ld_queries>>
    /\ UNCHANGED <<ld_files, ld_max_parallel, ld_pc, ld_result, LoadRest>>

\* in_flight.next() yields None on the empty set: the loop is left and the
\* call returns, with an error if failed > 0
LdReturn ==
    /\ ld_pc = "loop"
    /\ ld_in_flight = {}
    /\ ld_pc' = "returned"
    /\ ld_result' = Some(IF ld_failed > 0 THEN "err" ELSE "ok")
    /\ UNCHANGED <<ld_files, ld_max_parallel, ld_iter, ld_task, ld_in_flight, ld_queries,
                   ld_completed, ld_failed, LoadRest>>

NextLoad ==
    \/ LdEmpty
    \/ LdStart
    \/ \E f \in 1..MaxFiles, outcome \in {"ok", "err"} : LdQueryEnds(f, outcome)
    \/ \E f \in 1..MaxFiles : LdLoop(f)
    \/ LdReturn

SpecLoad == InitLoad /\ [][NextLoad]_vars

\* C36: load_csv_files issues one LOAD CSV query for every file exactly
\* once, never has more than max_parallel queries in flight, and returns an
\* error if and only if at least one load failed, so that success means
\* that every file was loaded: for every max_parallel and completion order.
C36_EveryFileLoadedOnceThrottled ==
    /\ Cardinality(ld_in_flight) <= ld_max_parallel
    /\ \A f \in FileIds : ld_queries[f] <= 1
    /\ ld_result # None =>
          /\ \A f \in FileIds : ld_queries[f] = 1
          /\ (ld_result = Some("err")) = (\E f \in FileIds : ld_task[f] = "err")
          /\ ld_result = Some("ok") => \A f \in FileIds : ld_task[f] = "ok"

\* ------------------------------------------------------------------------
\* Opening the sharded sink of one table, run after run: create_csv_writer,
\* ShardedCsvWriter::new and write_headers (specification SpecSink)
\* ------------------------------------------------------------------------
MaxSinkShards == 2
MaxRuns == 3

\* edges_writer.write_headers(&[":START_ID", ":END_ID", ":TYPE"])
EdgesHeader == <<":START_ID", ":END_ID", ":TYPE">>
EdgeRow(page_id) == <<ToString(page_id), "end", "links_to">>

SinkFiles == {shard_filename("edges", k, n) : k \in 0..(MaxSinkShards - 1), n \in 1..MaxSinkShards}

\* create_csv_writer on one file of a run that is not a dry run: a resumed
\* run appends to the file when it exists; otherwise File::create, which
\* leaves an empty file
open_file(content, is_resuming) ==
    IF is_resuming /\ content # None THEN content ELSE Some(<<>>)

\* ShardedCsvWriter::new: one writer per shard; a dry run's writers are sinks
open_shards(files, base_name, shards, dry_run, is_resuming) ==
    [f \in DOMAIN files |->
        IF ~dry_run /\ (\E k \in 1..shards : new_writers(base_name, shards)[k] = f)
        THEN open_file(files[f], is_resuming)
        ELSE files[f]]

\* write_record on one writer: a sink discards the row
write_record(files, writer, dry_run, row) ==
    IF dry_run THEN files
    ELSE [files EXCEPT ![writer] = Some(Append(files[writer][1], row))]

\* ShardedCsvWriter::write_headers: the tuple goes to every writer
write_headers(files, writers, dry_run, fields) ==
    [f \in DOMAIN files |->
        IF ~dry_run /\ (\E k \in 1..Len(writers) : writers[k] = f)
        THEN Some(Append(files[f][1], fields))
        ELSE files[f]]

InitSink ==
    /\ sk_files = [f \in SinkFiles |-> None]
    /\ sk_runs = 0
    /\ sk_ckpt = FALSE
    /\ sk_before = sk_files
    /\ sk_last = None
    /\ SnapOff /\ CallOff /\ DryOff /\ SeriesOff /\ LoadOff /\ RowsOff
    /\ ExtractOff /\ IndexOff /\ DedupOff /\ SeeAlsoOff /\ StoreOff
    /\ EdgesOff /\ LimitOff /\ ShardsOff

SinkRest == <<storeVars, edgeVars, limitVars, shardVars, snapVars, callVars, dryVars, seriesVars,
              loadVars, rowVars, extractVars, indexVars, dedupVars, seeAlsoVars>>

\* One run of run_extraction as far as the edges table goes: the writers
\* are opened, the headers are written unless the run resumes, and the
\* pages in `pages` each write one row through shard_for. A run resumes
\* only from a checkpoint, and a run that is not a dry run leaves one.
SkRun(dry_run, is_resuming, shards, written_by) ==
    /\ sk_runs < MaxRuns
    /\ is_resuming => sk_ckpt
    /\ LET writers == new_writers("edges", shards)
           opened == open_shards(sk_files, "edges", shards, dry_run, is_resuming)
           headed == IF is_resuming THEN opened
                     ELSE write_headers(opened, writers, dry_run, EdgesHeader)
           written == IF written_by = {} THEN headed
                      ELSE LET id == CHOOSE id \in written_by : TRUE
                           IN  write_record(headed, writer_for(writers, id), dry_run, EdgeRow(id))
       IN  sk_files' = written
    /\ sk_before' = sk_files
    /\ sk_last' = Some([dry_run |-> dry_run, resuming |-> is_resuming, shards |-> shards])
    /\ sk_runs' = sk_runs + 1
    /\ sk_ckpt' = (sk_ckpt \/ ~dry_run)
    /\ UNCHANGED SinkRest

\* Between two runs a shard file is removed from the output directory
SkRemove(f) ==
    /\ sk_ckpt
    /\ sk_runs < MaxRuns
    /\ sk_files[f] # None
    /\ sk_files' = [sk_files EXCEPT ![f] = None]
    /\ sk_before' = sk_files'
    /\ sk_last' = None
    /\ UNCHANGED <<sk_runs, sk_ckpt, SinkRest>>

NextSink ==
    \/ \E dry_run \in BOOLEAN, is_resuming \in BOOLEAN, shards \in 1..MaxSinkShards,
          written_by \in {{}, {0}, {1}} : SkRun(dry_run, is_resuming, shards, written_by)
    \/ \E f \in SinkFiles : SkRemove(f)

SpecSink == InitSink /\ [][NextSink]_vars

HeaderRows(rows) == {i \in 1..Len(rows) : rows[i] = EdgesHeader}

\* C31: opening a sharded sink: in a dry run every writer discards; a
\* resumed run opens an existing shard file for append and writes no header
\* row; in every other case (a fresh run, or a resumed run whose shard file
\* is missing) the file is created and the header tuple is its first row.
\* So after any series of fresh and resumed runs every shard file starts
\* with exactly one header row.
C31_OneHeaderRowPerShardFile ==
    /\ \A f \in SinkFiles :
          sk_files[f] # None => HeaderRows(sk_files[f][1]) = {1}
    /\ (sk_last # None /\ sk_files # sk_before) =>
          LET run == sk_last[1]
              writers == new_writers("edges", run.shards)
          IN  /\ ~run.dry_run
              /\ \A k \in 1..run.shards :
                    LET old == sk_before[writers[k]]
                        new == sk_files[writers[k]]
                    IN  IF run.resuming /\ old # None
                        THEN /\ new # None
                             /\ Len(new[1]) >= Len(old[1])
                             /\ SubSeq(new[1], 1, Len(old[1])) = old[1]
                             /\ HeaderRows(new[1]) = HeaderRows(old[1])
                        ELSE new # None /\ HeaderRows(new[1]) = {1}

\* ------------------------------------------------------------------------
\* The edge rows of a page, written by concurrent workers through the mutex
\* of the page's edges shard (specification SpecRows)
\* ------------------------------------------------------------------------
MaxRowPages == 2
MaxPageRows == 2
MaxRowShards == 2

RowPages == 1..MaxRowPages

\* ShardedCsvWriter::shard_for: (page_id as usize) % self.writers.len()
shard_index(page_id, shards) == page_id % shards

InitRows ==
    /\ rw_shards \in 1..MaxRowShards
    /\ rw_edges \in [RowPages -> 0..MaxPageRows]
    /\ rw_next = 1
    /\ rw_pc = [w \in Workers |-> "idle"]
    /\ rw_page = [w \in Workers |-> 0]
    /\ rw_i = [w \in Workers |-> 0]
    /\ rw_lock = [s \in 0..(rw_shards - 1) |-> 0]
    /\ rw_file = [s \in 0..(rw_shards - 1) |-> <<>>]
    /\ rw_acq = [p \in RowPages |-> 0]
    /\ SnapOff /\ CallOff /\ DryOff /\ SeriesOff /\ LoadOff /\ SinkOff
    /\ ExtractOff /\ IndexOff /\ DedupOff /\ SeeAlsoOff /\ StoreOff
    /\ EdgesOff /\ LimitOff /\ ShardsOff

RowsRest == <<storeVars, edgeVars, limitVars, shardVars, snapVars, callVars, dryVars, seriesVars,
              loadVars, sinkVars, extractVars, indexVars, dedupVars, seeAlsoVars>>

\* par_bridge hands the next page to an idle worker; with local_edges empty
\* the closure does not touch the edges writer
RwTake(w) ==
    /\ rw_pc[w] = "idle"
    /\ rw_next <= MaxRowPages
    /\ rw_next' = rw_next + 1
    /\ IF rw_edges[rw_next] # 0
       THEN /\ rw_pc' = [rw_pc EXCEPT ![w] = "lock"]
            /\ rw_page' = [rw_page EXCEPT ![w] = rw_next]
       ELSE UNCHANGED <<rw_pc, rw_page>>
    /\ UNCHANGED <<rw_shards, rw_edges, rw_i, rw_lock, rw_file, rw_acq, RowsRest>>

RwLockWithoutMutex(w) ==
    /\ rw_pc[w] = "lock"
    /\ LET s == shard_index(rw_page[w], rw_shards) IN
       /\ rw_lock' = [rw_lock EXCEPT ![s] = w]
       /\ rw_acq' = [rw_acq EXCEPT ![rw_page[w]] = @ + 1]
    /\ rw_pc' = [rw_pc EXCEPT ![w] = "write"]
    /\ rw_i' = [rw_i EXCEPT ![w] = 1]
    /\ UNCHANGED <<rw_shards, rw_edges, rw_next, rw_page, rw_file, RowsRest>>

\* edges_writer.shard_for(page.id).lock(): the worker waits until the mutex
\* of the shard is free
RwLock(w) ==
    /\ rw_pc[w] = "lock"
    /\ LET s == shard_index(rw_page[w], rw_shards) IN
       /\ rw_lock[s] = 0
       /\ rw_lock' = [rw_lock EXCEPT ![s] = w]
       /\ rw_acq' = [rw_acq EXCEPT ![rw_page[w]] = @ + 1]
    /\ rw_pc' = [rw_pc EXCEPT ![w] = "write"]
    /\ rw_i' = [rw_i EXCEPT ![w] = 1]
    /\ UNCHANGED <<rw_shards, rw_edges, rw_next, rw_page, rw_file, RowsRest>>

\* one turn of `for (end, edge_type) in &local_edges`: writer.write_record
RwWrite(w) ==
    /\ rw_pc[w] = "write"
    /\ LET s == shard_index(rw_page[w], rw_shards) IN
       rw_file' = [rw_file EXCEPT ![s] = Append(@, <<rw_page[w], rw_i[w]>>)]
    /\ IF rw_i[w] < rw_edges[rw_page[w]]
       THEN /\ rw_i' = [rw_i EXCEPT ![w] = @ + 1]
            /\ UNCHANGED rw_pc
       ELSE /\ rw_i' = [rw_i EXCEPT ![w] = 0]
            /\ rw_pc' = [rw_pc EXCEPT ![w] = "unlock"]
    /\ UNCHANGED <<rw_shards, rw_edges, rw_next, rw_page, rw_lock, rw_acq, RowsRest>>

\* the guard goes out of scope at the end of the `if let`
RwUnlock(w) ==
    /\ rw_pc[w] = "unlock"
    /\ LET s == shard_index(rw_page[w], rw_shards) IN
       rw_lock' = [rw_lock EXCEPT ![s] = IF @ = w THEN 0 ELSE @]
    /\ rw_pc' = [rw_pc EXCEPT ![w] = "idle"]
    /\ rw_page' = [rw_page EXCEPT ![w] = 0]
    /\ UNCHANGED <<rw_shards, rw_edges, rw_next, rw_i, rw_file, rw_acq, RowsRest>>

NextRows ==
    \E w \in Workers :
        \/ RwTake(w)
        \/ RwLock(w)
        \/ RwWrite(w)
        \/ RwUnlock(w)

SpecRows == InitRows /\ [][NextRows]_vars

\* C33: all edge rows of one page are written under a single acquisition of
\* the mutex of its edges shard: in the shard file the rows of a page are
\* contiguous and in the document order of its links, never interleaved
\* with the rows another worker writes for a different page of the shard.
C33_PageRowsContiguous ==
    /\ \A p \in RowPages : rw_acq[p] <= 1
    /\ \A s \in DOMAIN rw_file :
          \A i \in 1..Len(rw_file[s]) : \A j \in i..Len(rw_file[s]) :
              rw_file[s][i][1] = rw_file[s][j][1] =>
                  /\ rw_file[s][j][2] = rw_file[s][i][2] + (j - i)
                  /\ rw_file[s][i][2] = 1 \/ (i > 1 /\ rw_file[s][i - 1][1] = rw_file[s][i][1])

\* Two workers have pages of the same shard: one is between two rows of
\* its page while the other waits for the mutex
C33_Witness ==
    \E w \in Workers, v \in Workers :
        /\ rw_pc[w] = "write" /\ rw_i[w] > 1
        /\ rw_pc[v] = "lock"
        /\ shard_index(rw_page[v], rw_shards) = shard_index(rw_page[w], rw_shards)
====
